---- MODULE Spec2Model ----
(* Page objects of the Ellucian portal end-to-end suite, modelled as state *)
(* machines over a small model of the host browser page: the card-count    *)
(* waiters, BasePage.waitForLoadState, findCard and                        *)
(* waitForNavigationAfterButtonClick.  Every host call is a suspension     *)
(* point, so an operation is split into one action per awaited call.       *)
EXTENDS Integers, Sequences, FiniteSets, TLC

(* ---------------- bounds of the model ---------------- *)
MaxCards == 2
MaxDocCards == 2
MaxPages == 3
MaxClickCards == 2
MaxButtons == 2
MaxSeconds == 10

(* ---------------- program constants ---------------- *)
PortalMaxAttempts == 10
PortalStableThreshold == 3
DashMaxAttempts == 5
DashStableThreshold == 2
PollInterval == 1000
SettleWait == 2000
MaxSafeWait == 5000
DashLoadStateTimeout == 15000
DashSelectorTimeout == 10000
DashCardSelectorTimeout == 5000
NavLoadTimeout == 10000
PortalDefaultTimeout == 30000
DashDefaultTimeout == 20000

(* timeout arguments tried by the callers of the two waiters *)
PortalTimeouts == {3000, PortalDefaultTimeout}
DashTimeouts == {2000, DashDefaultTimeout}

(* JavaScript values handed to a caller; Undefined is the value of a function *)
(* that ends without a return statement                                       *)
Undefined == "undefined"
JsTrue == "true"
JsFalse == "false"
JsBool(b) == IF b THEN JsTrue ELSE JsFalse

VARIABLES
  op,                \* operation under way: "wait", "load", "find", "nav"
  cls,               \* class of the page object: "PortalPage", "DashboardPage", "BasePage"
  pc,                \* position inside the operation
  pageOpen,          \* host: the page (tab) is still open; every host call throws once it is closed
  cards,             \* host: the card elements of the document, in document order
  now,               \* host clock, ms
  startTime,         \* clock value when the operation was called
  timeout,           \* the timeout argument
  previousCardCount, \* local of the polling loops
  currentCardCount,  \* local: cards.length of the last query
  stableCount,       \* local: the stability counter
  attempt,           \* local: loop counter
  hist,              \* history: previousCardCount's initial 0 followed by the counts compared, last four kept
  polledLate,        \* history: a poll (the wait, then the query) was begun with elapsed time > timeout
  outcome,           \* history: the branch by which the polling loop ended
  retval,            \* value returned to the caller
  threw,             \* the operation threw to its caller
  lsState,           \* waitForLoadState: the state argument
  signalAt,          \* host: ms after which the load-state signal fires, -1 never
  hostOutcome,       \* host: how the awaited host call ended
  cardName,          \* findCard: the argument
  otherText,         \* host: text of the one element outside every card, <<>> when there is none
  calls,             \* findCard: number of completed calls
  res,               \* findCard: results of the completed calls
  scrollPos,         \* host: index of the element last scrolled into view, 0 none
  scrollAtCall,      \* history: scrollPos when the current findCard call began
  shots,             \* screenshot files written
  clicks,            \* host: number of click / fill / goto calls received
  timedWaits,        \* host: number of waitForTimeout calls received during findCard
  docChanged,        \* history: the document changed since the first findCard call began
  docAtCall,         \* history: the cards as they were when the last search ran
  navRet,            \* waitForNavigationAfterButtonClick: the page returned
  pages,             \* host: context.pages(), creation order
  thisPage,          \* this.page of the page object
  pagesSnap,         \* local 'pages' of waitForNavigationAfterButtonClick
  ctxValid,          \* nav: the context argument is a browser context
  clickTab,          \* history: the tab opened by the click that preceded the call, 0 while it opened none
  scn,               \* scenario: the test function under way, "none" outside a scenario
  step,              \* scenario: number of statements of the test function completed
  env,               \* scenario: process.env after dotenv, per required key
  cfg,               \* scenario: the values of url, username, password the test works with
  poPage,            \* scenario: this.page of every page object constructed so far, 0 before
  activeTab,         \* history: the fixture page, then the tab returned by the last navigation wait
  log,               \* history: the automation calls issued, with the tab acted on and the active tab
  method,            \* click: the method called, "none" outside a click operation
  buttonText,        \* click: the buttonText argument, <<>> when it is not given (null)
  clickIfNone,       \* click: the clickCardIfNoButton / clickCardIfNoIcon argument
  btns,              \* host: per card, the texts of the buttons inside it, in document order
  outsideBtn,        \* host: text of the one button outside every card (after them), <<>> when none
  found,             \* click: local 'card', the value findCard returned
  target,            \* click: the element chosen for the click
  inner,             \* click: clickCardIcon has handed over to this.clickCard(cardName)
  clicked,           \* host: the elements that received a click, in order
  rememberMe,        \* login: the rememberMe argument (EllucianLoginPage); toggle: the check argument
  loginStep,         \* login: number of statements of the flow completed
  issued,            \* history: the host calls issued, in order
  completed,         \* history: the host calls that have settled, in order
  inflight,          \* host: the call issued and not yet settled, "none" when there is none
  failedAt,          \* history: the call whose failure reached the outer catch block, "none" if none
  shotTried,         \* history: the screenshots attempted (written or not), in order
  seconds,           \* waitOnRequirementsPage: the seconds argument
  parScn,            \* parallel run: the test function each of the two workers runs
  parStep,           \* parallel run: per worker, the number of its screenshots taken
  written,           \* host file system: who has written which file
  dom,               \* host: what the document holds for the strategies of the operation under way;
                     \* scenario: whether the host can write screenshot files
  trail              \* history: the strategies / attempts made by the operation, in order

waitVars == <<startTime, timeout, previousCardCount, currentCardCount, stableCount,
              attempt, hist, polledLate, outcome>>
loadVars == <<lsState, signalAt, hostOutcome>>
findVars == <<cardName, otherText, calls, res, scrollPos, scrollAtCall, clicks,
              timedWaits, docChanged, docAtCall>>
navVars == <<pages, thisPage, pagesSnap, ctxValid, navRet, clickTab>>
scnVars == <<scn, step, env, cfg, poPage, activeTab, log>>
clickVars == <<method, buttonText, clickIfNone, btns, outsideBtn, found, target, inner, clicked>>
loginVars == <<rememberMe, loginStep, issued, completed, inflight, failedAt, shotTried>>
reqVars == <<seconds>>
parVars == <<parScn, parStep, written>>
stratVars == <<dom, trail>>
flowVars == <<scnVars, clickVars, loginVars, reqVars, parVars, stratVars>>
vars == <<op, cls, pc, pageOpen, cards, now, retval, threw, shots,
          waitVars, loadVars, findVars, navVars, flowVars>>

(* ---------------- helpers ---------------- *)
Min(a, b) == IF a < b THEN a ELSE b

Last(s) == s[Len(s)]

(* the last n elements of s *)
LastN(s, n) == IF Len(s) <= n THEN s ELSE SubSeq(s, Len(s) - n + 1, Len(s))

BlankCard == [hasTitle |-> FALSE, title |-> <<>>, body |-> <<>>, vis |-> "visible"]

Blank(n) == [i \in 1..n |-> BlankCard]

(* BasePage.wait: the requested time capped at 5 s; an error of the host is swallowed *)
SafeMs(ms) == Min(ms, MaxSafeWait)

WaitElapsed(ms) == IF pageOpen THEN SafeMs(ms) ELSE 0

(* BasePage.takeScreenshot: writes the file unless the host fails; never throws *)
Shot(path) == IF pageOpen THEN shots \cup {path} ELSE shots

(* page.waitForSelector: found, or a TimeoutError after the budget, or the page is closed; *)
(* findCard is run on a rendered document, which has its main content and its container  *)
SelectorOutcomes(sel) ==
  IF ~pageOpen THEN {"closed"}
  ELSE IF sel = "card" THEN (IF Len(cards) > 0 THEN {"found"} ELSE {"timeout"})
  ELSE IF op = "find" THEN {"found"}
  ELSE {"found", "timeout"}

(* ---------------- PortalPage.waitForPortalPageLoad ---------------- *)
PortalStableNextNoZeroCheck(cur, prev, sc) == IF cur = prev THEN sc + 1 ELSE 0

PortalStableNext(cur, prev, sc) == IF cur = prev /\ cur > 0 THEN sc + 1 ELSE 0

PortalLoopGuardNoCap == stableCount < PortalStableThreshold

PortalLoopGuard == attempt < PortalMaxAttempts /\ stableCount < PortalStableThreshold

WaiterReturnBool(how) == JsBool(how = "stable")

(* neither waiter has a return statement *)
WaiterReturn(how) == Undefined

PortalSel(k, sel, nextPc) ==
  /\ op \in {"wait", "find"} /\ cls = "PortalPage" /\ pc = k
  /\ \E o \in SelectorOutcomes(sel) :
       /\ hostOutcome' = o
       /\ IF o = "found"
            THEN pc' = nextPc /\ now' = now
            ELSE /\ pc' = "p_catch"
                 /\ now' = IF o = "timeout" THEN now + (timeout \div 3) ELSE now
  /\ UNCHANGED <<op, cls, pageOpen, cards, retval, threw, shots, waitVars,
                 lsState, signalAt, findVars, navVars, flowVars>>

PortalSelMain == PortalSel("p_sel1", "main", "p_sel2")

PortalSelContainer == PortalSel("p_sel2", "container", "p_sel3")

PortalSelCards == PortalSel("p_sel3", "card", "p_loop")

PortalWait ==
  /\ op \in {"wait", "find"} /\ cls = "PortalPage" /\ pc = "p_loop"
  /\ PortalLoopGuard
  /\ now' = now + WaitElapsed(PollInterval)
  /\ polledLate' = (polledLate \/ now - startTime > timeout)
  /\ timedWaits' = IF op = "find" THEN timedWaits + 1 ELSE timedWaits
  /\ pc' = "p_poll"
  /\ UNCHANGED <<op, cls, pageOpen, cards, retval, threw, shots, startTime, timeout,
                 previousCardCount, currentCardCount, stableCount, attempt, hist, outcome,
                 loadVars, cardName, otherText, calls, res, scrollPos, scrollAtCall,
                 clicks, docChanged, docAtCall, navVars, flowVars>>

PortalPoll ==
  /\ op \in {"wait", "find"} /\ cls = "PortalPage" /\ pc = "p_poll"
  /\ IF ~pageOpen
       THEN /\ pc' = "p_catch"
            /\ UNCHANGED waitVars
       ELSE /\ currentCardCount' = Len(cards)
            /\ stableCount' = PortalStableNext(Len(cards), previousCardCount, stableCount)
            /\ previousCardCount' = Len(cards)
            /\ attempt' = attempt + 1
            /\ hist' = LastN(Append(hist, Len(cards)), 4)
            /\ pc' = "p_loop"
            /\ UNCHANGED <<startTime, timeout, polledLate, outcome>>
  /\ UNCHANGED <<op, cls, pageOpen, cards, now, retval, threw, shots,
                 loadVars, findVars, navVars, flowVars>>

PortalExit ==
  /\ op \in {"wait", "find"} /\ cls = "PortalPage" /\ pc = "p_loop"
  /\ ~PortalLoopGuard
  /\ outcome' = IF stableCount >= PortalStableThreshold THEN "stable" ELSE "exhausted"
  /\ now' = now + WaitElapsed(SettleWait)
  /\ timedWaits' = IF op = "find" THEN timedWaits + 1 ELSE timedWaits
  /\ shots' = Shot(<<"portal-page-cards-loaded.png">>)
  /\ retval' = WaiterReturn(outcome')
  /\ pc' = IF op = "find" THEN "f_search" ELSE "done"
  /\ UNCHANGED <<op, cls, pageOpen, cards, threw, startTime, timeout, previousCardCount,
                 currentCardCount, stableCount, attempt, hist, polledLate,
                 loadVars, cardName, otherText, calls, res, scrollPos, scrollAtCall,
                 clicks, docChanged, docAtCall, navVars, flowVars>>

PortalCatch ==
  /\ op \in {"wait", "find"} /\ cls = "PortalPage" /\ pc = "p_catch"
  /\ outcome' = "error"
  /\ shots' = Shot(<<"portal-page-load-error.png">>)
  /\ retval' = WaiterReturn(outcome')
  /\ pc' = IF op = "find" THEN "f_search" ELSE "done"
  /\ UNCHANGED <<op, cls, pageOpen, cards, now, threw, startTime, timeout, previousCardCount,
                 currentCardCount, stableCount, attempt, hist, polledLate,
                 loadVars, findVars, navVars, flowVars>>

(* ---------------- DashboardPage.waitForDashboardPageLoad ---------------- *)
(* checkTimeout(): the elapsed time since startTime exceeds the timeout argument *)
CheckTimeout == now - startTime > timeout

DashStableNextNonZero(cur, prev, sc) == IF cur = prev /\ prev > 0 THEN sc + 1 ELSE 0

DashStableNext(cur, prev, sc) == IF cur = prev THEN sc + 1 ELSE 0

(* page.waitForLoadState as awaited by BasePage.waitForLoadState *)
LoadOutcomes == IF ~pageOpen THEN {"closed"} ELSE {"resolved", "timeout"}

DashLoad(k, nextPc, shot) ==
  /\ op = "wait" /\ cls = "DashboardPage" /\ pc = k
  /\ \E o \in LoadOutcomes :
       /\ hostOutcome' = o
       /\ now' = IF o = "timeout" THEN now + DashLoadStateTimeout ELSE now
  /\ shots' = IF shot THEN Shot(<<"dashboard-initial-load.png">>) ELSE shots
  /\ pc' = nextPc
  /\ UNCHANGED <<op, cls, pageOpen, cards, retval, threw, waitVars,
                 lsState, signalAt, findVars, navVars, flowVars>>

DashLoadDom == DashLoad("d_load1", "d_load2", FALSE)

DashLoadIdle == DashLoad("d_load2", "d_sel1", TRUE)

DashSel(k, sel, budget, nextPc, shot) ==
  /\ op = "wait" /\ cls = "DashboardPage" /\ pc = k
  /\ \E o \in SelectorOutcomes(sel) :
       /\ hostOutcome' = o
       /\ now' = IF o = "timeout" THEN now + budget ELSE now
       /\ shots' = IF o # "found" /\ shot # <<>> THEN Shot(shot) ELSE shots
  /\ pc' = nextPc
  /\ UNCHANGED <<op, cls, pageOpen, cards, retval, threw, waitVars,
                 lsState, signalAt, findVars, navVars, flowVars>>

DashSelContent ==
  DashSel("d_sel1", "main", DashSelectorTimeout, "d_sel2", <<"dashboard-content-not-found.png">>)

DashSelContainer ==
  DashSel("d_sel2", "container", DashSelectorTimeout, "d_sel3", <<"dashboard-container-not-found.png">>)

DashSelCards == DashSel("d_sel3", "card", DashCardSelectorTimeout, "d_query0", <<>>)

(* let cards = await this.page.$$(...) before the loop *)
DashFirstQuery ==
  /\ op = "wait" /\ cls = "DashboardPage" /\ pc = "d_query0"
  /\ IF ~pageOpen
       THEN /\ pc' = "d_final" /\ outcome' = "error"
            /\ UNCHANGED currentCardCount
       ELSE /\ pc' = "d_loop" /\ currentCardCount' = Len(cards)
            /\ UNCHANGED outcome
  /\ shots' = IF ~pageOpen THEN Shot(<<"dashboard-cards-not-found.png">>) ELSE shots
  /\ UNCHANGED <<op, cls, pageOpen, cards, now, retval, threw, startTime, timeout,
                 previousCardCount, stableCount, attempt, hist, polledLate,
                 loadVars, findVars, navVars, flowVars>>

(* the head of one loop iteration: loop condition, checkTimeout(), the comparison *)
DashIterate ==
  /\ op = "wait" /\ cls = "DashboardPage" /\ pc = "d_loop"
  /\ IF attempt >= DashMaxAttempts
       THEN /\ pc' = "d_after" /\ outcome' = "exhausted"
            /\ UNCHANGED <<stableCount, previousCardCount, hist>>
       ELSE IF CheckTimeout
         THEN /\ pc' = "d_after" /\ outcome' = "timedout"
              /\ UNCHANGED <<stableCount, previousCardCount, hist>>
         ELSE /\ stableCount' = DashStableNext(currentCardCount, previousCardCount, stableCount)
              /\ previousCardCount' = currentCardCount
              /\ hist' = LastN(Append(hist, currentCardCount), 4)
              /\ IF stableCount' >= DashStableThreshold
                   THEN pc' = "d_after" /\ outcome' = "stable"
                   ELSE pc' = "d_wait" /\ UNCHANGED outcome
  /\ UNCHANGED <<op, cls, pageOpen, cards, now, retval, threw, shots, startTime, timeout,
                 currentCardCount, attempt, polledLate, loadVars, findVars, navVars, flowVars>>

DashWait ==
  /\ op = "wait" /\ cls = "DashboardPage" /\ pc = "d_wait"
  /\ now' = now + WaitElapsed(PollInterval)
  /\ polledLate' = (polledLate \/ CheckTimeout)
  /\ pc' = "d_poll"
  /\ UNCHANGED <<op, cls, pageOpen, cards, retval, threw, shots, startTime, timeout,
                 previousCardCount, currentCardCount, stableCount, attempt, hist, outcome,
                 loadVars, findVars, navVars, flowVars>>

DashPoll ==
  /\ op = "wait" /\ cls = "DashboardPage" /\ pc = "d_poll"
  /\ IF ~pageOpen
       THEN /\ pc' = "d_final" /\ outcome' = "error"
            /\ UNCHANGED <<currentCardCount, attempt, polledLate>>
       ELSE /\ pc' = "d_loop"
            /\ currentCardCount' = Len(cards)
            /\ attempt' = attempt + 1
            /\ UNCHANGED <<polledLate, outcome>>
  /\ shots' = IF ~pageOpen THEN Shot(<<"dashboard-cards-not-found.png">>) ELSE shots
  /\ UNCHANGED <<op, cls, pageOpen, cards, now, retval, threw, startTime, timeout,
                 previousCardCount, stableCount, hist, loadVars, findVars, navVars, flowVars>>

(* after the loop: the settling wait, unless the overall timeout has passed *)
DashSettle ==
  /\ op = "wait" /\ cls = "DashboardPage" /\ pc = "d_after"
  /\ IF CheckTimeout
       THEN pc' = "d_final" /\ now' = now
       ELSE pc' = "d_img" /\ now' = now + WaitElapsed(SettleWait)
  /\ UNCHANGED <<op, cls, pageOpen, cards, retval, threw, shots, waitVars,
                 loadVars, findVars, navVars, flowVars>>

(* the card images: queried unless the timeout has passed, a second wait if there are any *)
DashImages ==
  /\ op = "wait" /\ cls = "DashboardPage" /\ pc = "d_img"
  /\ IF CheckTimeout
       THEN now' = now /\ UNCHANGED <<outcome, shots>>
       ELSE IF ~pageOpen
         THEN now' = now /\ shots' = Shot(<<"dashboard-cards-not-found.png">>) /\ UNCHANGED outcome
         ELSE /\ \E hasImages \in BOOLEAN :
                   now' = IF hasImages THEN now + WaitElapsed(SettleWait) ELSE now
              /\ UNCHANGED <<outcome, shots>>
  /\ pc' = "d_final"
  /\ UNCHANGED <<op, cls, pageOpen, cards, retval, threw, startTime, timeout,
                 previousCardCount, currentCardCount, stableCount, attempt, hist,
                 polledLate, loadVars, findVars, navVars, flowVars>>

DashFinish ==
  /\ op = "wait" /\ cls = "DashboardPage" /\ pc = "d_final"
  /\ shots' = Shot(<<"dashboard-fully-loaded.png">>)
  /\ retval' = WaiterReturn(outcome)
  /\ pc' = "done"
  /\ UNCHANGED <<op, cls, pageOpen, cards, now, threw, waitVars,
                 loadVars, findVars, navVars, flowVars>>

(* ---------------- BasePage.waitForLoadState ---------------- *)
LoadStates == {"load", "domcontentloaded", "networkidle"}

(* timeout arguments of the callers: PortalPage.js:508 (15000 / 3), the default, BasePage.js:133 *)
LoadTimeouts == {5000, NavLoadTimeout, DashLoadStateTimeout}

(* host: ms after the call at which the load state is reached, -1 when it never is *)
SignalTimes == {-1, 0, 5000, 10000, 15000, 20000}

(* page.waitForLoadState(state, {timeout}): resolves when the state is reached within *)
(* the timeout, rejects with a TimeoutError otherwise, rejects when the page is       *)
(* closed; a signal at the very instant of the timeout may go either way              *)
HostLoadOutcomes ==
  IF ~pageOpen THEN {"closed"}
  ELSE IF signalAt >= 0 /\ signalAt < timeout THEN {"resolved"}
  ELSE IF signalAt = timeout THEN {"resolved", "timeout"}
  ELSE {"timeout"}

WaitForLoadStateResultRethrow(o) ==
  IF o = "resolved" THEN [ret |-> JsTrue, threw |-> FALSE]
  ELSE IF o = "timeout" THEN [ret |-> JsFalse, threw |-> FALSE]
  ELSE [ret |-> Undefined, threw |-> TRUE]

(* try { await ...; return true } catch (error) { return false } *)
WaitForLoadStateResult(o) ==
  IF o = "resolved" THEN [ret |-> JsTrue, threw |-> FALSE]
  ELSE [ret |-> JsFalse, threw |-> FALSE]

(* the call reaches its await: the host starts waiting *)
LoadCall ==
  /\ op = "load" /\ pc = "l_call"
  /\ startTime' = now
  /\ pc' = "l_wait"
  /\ UNCHANGED <<op, cls, pageOpen, cards, now, retval, threw, shots, timeout,
                 previousCardCount, currentCardCount, stableCount, attempt, hist,
                 polledLate, outcome, loadVars, findVars, navVars, flowVars>>

(* the host settles the awaited promise *)
LoadSettle ==
  /\ op = "load" /\ pc = "l_wait"
  /\ \E o \in HostLoadOutcomes :
       /\ hostOutcome' = o
       /\ now' = IF o = "resolved" THEN now + signalAt
                 ELSE IF o = "timeout" THEN now + timeout ELSE now
  /\ pc' = "l_ret"
  /\ UNCHANGED <<op, cls, pageOpen, cards, retval, threw, shots, waitVars,
                 lsState, signalAt, findVars, navVars, flowVars>>

LoadReturn ==
  /\ op = "load" /\ pc = "l_ret"
  /\ retval' = WaitForLoadStateResult(hostOutcome).ret
  /\ threw' = WaitForLoadStateResult(hostOutcome).threw
  /\ pc' = "done"
  /\ UNCHANGED <<op, cls, pageOpen, cards, now, shots, waitVars, loadVars,
                 findVars, navVars, flowVars>>

(* ---------------- findCard (PortalPage and DashboardPage) ---------------- *)
(* texts are sequences of characters; "A" is the upper-case form of "a" *)
ToLowerCase(c) == IF c = "A" THEN "a" ELSE IF c = "B" THEN "b" ELSE c

LowerStr(t) == [i \in 1..Len(t) |-> ToLowerCase(t[i])]

(* String.prototype.includes *)
Includes(hay, needle) ==
  \E k \in 0..(Len(hay) - Len(needle)) : SubSeq(hay, k + 1, k + Len(needle)) = needle

(* card.textContent(): the text of the title element followed by the rest of the card *)
TextContent(c) == c.title \o c.body

(* lines 103-110: the title element exists, its text is non-empty and includes the name *)
TitleMatches(c, name) ==
  /\ c.hasTitle
  /\ c.title # <<>>
  /\ Includes(LowerStr(c.title), LowerStr(name))

(* lines 121-124: the text of the card is non-empty and includes the name *)
ContentMatches(c, name) ==
  /\ TextContent(c) # <<>>
  /\ Includes(LowerStr(TextContent(c)), LowerStr(name))

(* page.getByText(new RegExp(cardName, 'i')).count() > 0, for the element outside the cards *)
TextMatches(t, name) == t # <<>> /\ Includes(LowerStr(t), LowerStr(name))

QueryBelowScroll(cs, pos) == SelectSeq([i \in 1..Len(cs) |-> i], LAMBDA i : i > pos)

(* page.$$(cardSelector): handles of all cards in document order, wherever the page is scrolled *)
QueryAll(cs, pos) == [i \in 1..Len(cs) |-> i]

LastMatch(hs, ok) ==
  LET hit == SelectSeq(hs, LAMBDA h : ok[h])
  IN  IF hit = <<>> THEN 0 ELSE hit[Len(hit)]

(* for (const card of cards) ... return card: the first handle whose card passes the *)
(* test ok, 0 if none                                                                *)
FirstMatch(hs, ok) ==
  LET hit == SelectSeq(hs, LAMBDA h : ok[h])
  IN  IF hit = <<>> THEN 0 ELSE hit[1]

NullResult == [kind |-> "null", idx |-> 0, err |-> FALSE, threw |-> FALSE]

(* catch (error) { ...; return null } *)
CatchResult == [kind |-> "null", idx |-> 0, err |-> TRUE, threw |-> FALSE]

CardResult(h) == [kind |-> "card", idx |-> h, err |-> FALSE, threw |-> FALSE]

FirstCardFallback(hs) ==
  IF hs = <<>> THEN NullResult ELSE CardResult(hs[1])

(* every strategy exhausted: return null *)
NotFoundResult(hs) == NullResult

(* card.scrollIntoViewIfNeeded() rejects for an element without a layout box *)
ScrollThrows(c) == c.vis = "nobox"

(* the strategies in their order; a throwing host call ends in the catch block: null *)
FindCardResult(class, hs, cs, name, other, open) ==
  LET t == FirstMatch(hs, [i \in 1..Len(cs) |-> TitleMatches(cs[i], name)])
      c == FirstMatch(hs, [i \in 1..Len(cs) |-> ContentMatches(cs[i], name)])
  IN  IF ~open THEN CatchResult
      ELSE IF t # 0
        THEN (IF ScrollThrows(cs[t]) THEN CatchResult ELSE CardResult(t))
      ELSE IF c # 0
        THEN (IF ScrollThrows(cs[c]) THEN CatchResult ELSE CardResult(c))
      ELSE IF class = "DashboardPage" /\ TextMatches(other, name)
        THEN [kind |-> "text", idx |-> Len(cs) + 1, err |-> FALSE, threw |-> FALSE]
      ELSE NotFoundResult(hs)

FindHitActionsWithClick == <<"scroll", "click", "screenshot">>

(* the host actions issued on the element found, before it is returned *)
FindHitActions == <<"scroll", "screenshot">>

Issued(a) == \E i \in 1..Len(FindHitActions) : FindHitActions[i] = a

(* String.prototype.replace(/\s+/g, '-') on the lower-cased name; the names have no blanks *)
FoundShotName(name, kind) ==
  LowerStr(name) \o <<IF kind = "text" THEN "-text-found.png" ELSE "-card-found.png">>

(* a call of findCard begins; PortalPage first runs waitForPortalPageLoad() *)
FindCall ==
  /\ op = "find" /\ pc = "f_idle" /\ calls < 2
  /\ scrollAtCall' = scrollPos
  /\ startTime' = now
  /\ previousCardCount' = 0 /\ currentCardCount' = 0 /\ stableCount' = 0
  /\ attempt' = 0 /\ hist' = <<0>> /\ outcome' = "running"
  /\ pc' = IF cls = "PortalPage" THEN "p_sel1" ELSE "f_search"
  /\ UNCHANGED <<op, cls, pageOpen, cards, now, retval, threw, shots, timeout, polledLate,
                 loadVars, cardName, otherText, calls, res, scrollPos, clicks, timedWaits,
                 docChanged, docAtCall, navVars, flowVars>>

(* the body of findCard after the wait: the searches, the scroll, the screenshot, the return *)
FindSearch ==
  /\ op = "find" /\ pc = "f_search"
  /\ LET r == FindCardResult(cls, QueryAll(cards, scrollPos), cards, cardName, otherText, pageOpen)
     IN  /\ res' = Append(res, r)
         /\ threw' = (threw \/ r.threw)
         /\ scrollPos' = IF r.kind # "null" /\ Issued("scroll") THEN r.idx ELSE scrollPos
         /\ clicks' = IF r.kind # "null" /\ Issued("click") THEN clicks + 1 ELSE clicks
         /\ shots' = IF r.kind # "null"
                       THEN (IF Issued("screenshot") THEN Shot(FoundShotName(cardName, r.kind))
                             ELSE shots)
                       ELSE Shot(IF r.err THEN <<"error-finding-card.png">>
                                 ELSE <<"card-not-found.png">>)
  /\ docAtCall' = cards
  /\ calls' = calls + 1
  /\ pc' = IF calls' = 2 THEN "done" ELSE "f_idle"
  /\ UNCHANGED <<op, cls, pageOpen, cards, now, retval, waitVars, loadVars,
                 cardName, otherText, scrollAtCall, timedWaits, docChanged, navVars, flowVars>>

(* between two calls the portal may re-render: the first card leaves the document *)
ChangeDoc ==
  /\ op = "find" /\ pc = "f_idle" /\ calls = 1 /\ pageOpen
  /\ cards # <<>>
  /\ cards' = Tail(cards)
  /\ docChanged' = TRUE
  /\ UNCHANGED <<op, cls, pc, pageOpen, now, retval, threw, shots, waitVars, loadVars,
                 cardName, otherText, calls, res, scrollPos, scrollAtCall, clicks,
                 timedWaits, docAtCall, navVars, flowVars>>

(* ---------------- waitForNavigationAfterButtonClick ---------------- *)
(* identical in PortalPage and in DashboardPage *)
PageRef(id) == [kind |-> "page", id |-> id]

NullRef == [kind |-> "null", id |-> 0]

NavResultNullOnError(snap, self, o) ==
  IF Len(snap) > 1
    THEN (IF o = "resolved" THEN PageRef(snap[Len(snap)]) ELSE NullRef)
    ELSE PageRef(self)

(* the value returned, given the pages read, this.page and the end of the awaited wait: *)
(* the last page when there are several and it loads, this.page otherwise (also from    *)
(* the catch block)                                                                     *)
NavResult(snap, self, o) ==
  IF Len(snap) > 1
    THEN (IF o = "resolved" THEN PageRef(snap[Len(snap)]) ELSE PageRef(self))
    ELSE PageRef(self)

(* const pages = context.pages(); a context that is no browser context throws a TypeError *)
NavRead ==
  /\ op = "nav" /\ pc = "n_call"
  /\ IF ctxValid
       THEN /\ pagesSnap' = pages
            /\ pc' = IF Len(pages) > 1 THEN "n_new" ELSE "n_cur"
            /\ UNCHANGED navRet
       ELSE /\ navRet' = PageRef(thisPage)
            /\ pc' = "done"
            /\ UNCHANGED pagesSnap
  /\ UNCHANGED <<op, cls, pageOpen, cards, now, retval, threw, shots, waitVars, loadVars,
                 findVars, pages, thisPage, ctxValid, clickTab, flowVars>>

(* await newPage.waitForLoadState('domcontentloaded', { timeout: 10000 }) *)
NavWaitNew ==
  /\ op = "nav" /\ pc = "n_new"
  /\ \E o \in {"resolved", "timeout", "closed"} :
       /\ hostOutcome' = o
       /\ now' = IF o = "timeout" THEN now + NavLoadTimeout ELSE now
       /\ navRet' = NavResult(pagesSnap, thisPage, o)
  /\ pc' = "done"
  /\ UNCHANGED <<op, cls, pageOpen, cards, retval, threw, shots, waitVars, lsState, signalAt,
                 findVars, pages, thisPage, pagesSnap, ctxValid, clickTab, flowVars>>

(* await this.waitForLoadState('networkidle', 10000), which swallows every failure *)
NavWaitCurrent ==
  /\ op = "nav" /\ pc = "n_cur"
  /\ \E o \in {"resolved", "timeout", "closed"} :
       /\ hostOutcome' = o
       /\ now' = IF o = "timeout" THEN now + NavLoadTimeout ELSE now
       /\ threw' = WaitForLoadStateResult(o).threw
       /\ navRet' = NavResult(pagesSnap, thisPage, o)
  /\ pc' = "done"
  /\ UNCHANGED <<op, cls, pageOpen, cards, retval, shots, waitVars, lsState, signalAt,
                 findVars, pages, thisPage, pagesSnap, ctxValid, clickTab, flowVars>>

(* tabs are numbered in creation order: a new tab is newer than every tab there is *)
NewTabId(ps, self) == (IF ps[Len(ps)] > self THEN ps[Len(ps)] ELSE self) + 1

(* the click that preceded the call opens its tab while the operation is under way *)
OpenTab ==
  /\ op = "nav" /\ pc # "done"
  /\ clickTab = 0
  /\ pages # <<>> /\ NewTabId(pages, thisPage) <= MaxPages
  /\ pages' = Append(pages, NewTabId(pages, thisPage))
  /\ clickTab' = NewTabId(pages, thisPage)
  /\ UNCHANGED <<op, cls, pc, pageOpen, cards, now, retval, threw, shots, waitVars, loadVars,
                 findVars, thisPage, pagesSnap, ctxValid, navRet, flowVars>>

(* ---------------- clickCard, clickCardButton, clickCardIcon ---------------- *)
ClickMethods == {"clickCard", "clickCardButton", "clickCardIcon"}

NoTarget == [kind |-> "none", card |-> 0, btn |-> 0]

(* the element findCard returned: a card, or on the dashboard the Locator of a text *)
CardTarget(r) == [kind |-> r.kind, card |-> r.idx, btn |-> 0]

ButtonTarget(c, j) == [kind |-> "button", card |-> c, btn |-> j]

IconTarget(r) == [kind |-> "icon", card |-> r.idx, btn |-> 0]

(* buttonContent && buttonContent.toLowerCase().includes(buttonText.toLowerCase()) *)
ButtonMatches(content, text) ==
  content # <<>> /\ Includes(LowerStr(content), LowerStr(text))

(* card.$$(cardButtonSelector), then the first button whose text includes buttonText *)
InCardButton(bs, c, text) ==
  FirstMatch([j \in 1..Len(bs[c]) |-> j],
             [j \in 1..Len(bs[c]) |-> ButtonMatches(bs[c][j], text)])

(* page.getByRole('button', { name: new RegExp(buttonText, 'i') }).first(): the first *)
(* button of the whole page, in document order, whose name matches                   *)
PageButton(bs, out, text) ==
  LET hitCards == {i \in 1..Len(bs) : \E j \in 1..Len(bs[i]) : TextMatches(bs[i][j], text)}
      c == CHOOSE i \in hitCards : \A k \in hitCards : i <= k
      j == CHOOSE m \in 1..Len(bs[c]) :
             /\ TextMatches(bs[c][m], text)
             /\ \A k \in 1..Len(bs[c]) : TextMatches(bs[c][k], text) => m <= k
  IN  IF hitCards # {} THEN ButtonTarget(c, j)
      ELSE IF TextMatches(out, text) THEN ButtonTarget(0, 1)
      ELSE NoTarget

ChooseButtonInCardOnly(r, bs, out, text, near) ==
  IF r.kind = "card" /\ text # <<>> /\ InCardButton(bs, r.idx, text) # 0
    THEN ButtonTarget(r.idx, InCardButton(bs, r.idx, text))
  ELSE IF r.kind = "card" /\ text = <<>> /\ Len(bs[r.idx]) > 0
    THEN ButtonTarget(r.idx, 1)
  ELSE NoTarget

(* the button clickCardButton settles on, NoTarget when it finds none; near: the host *)
(* finds a button that contains the text element findCard returned as a Locator       *)
ChooseButton(r, bs, out, text, near) ==
  IF text # <<>>
    THEN IF r.kind = "text"
           THEN (IF near /\ TextMatches(out, text) THEN ButtonTarget(0, 1)
                 ELSE PageButton(bs, out, text))
           ELSE (IF InCardButton(bs, r.idx, text) # 0
                   THEN ButtonTarget(r.idx, InCardButton(bs, r.idx, text))
                   ELSE PageButton(bs, out, text))
    ELSE IF r.kind = "text"
           THEN (IF near /\ out # <<>> THEN ButtonTarget(0, 1) ELSE NoTarget)
           ELSE (IF Len(bs[r.idx]) > 0 THEN ButtonTarget(r.idx, 1) ELSE NoTarget)

ClickCaughtRethrow(how) ==
  IF how = "closed" THEN [ret |-> Undefined, threw |-> TRUE]
  ELSE [ret |-> JsFalse, threw |-> FALSE]

(* catch (error) { ...; await this.takeScreenshot('error-clicking-....png'); return false } *)
ClickCaught(how) == [ret |-> JsFalse, threw |-> FALSE]

ErrorShotName ==
  IF method = "clickCardButton" THEN <<"error-clicking-button.png">>
  ELSE IF method = "clickCardIcon" /\ ~inner THEN <<"error-clicking-icon.png">>
  ELSE <<"error-clicking-card.png">>

(* the screenshots written around a click that succeeds *)
ClickShots ==
  IF target.kind = "icon"
    THEN {LowerStr(cardName) \o <<"-icon-before-click.png">>,
          LowerStr(cardName) \o <<"-icon-after-click.png">>}
  ELSE IF method = "clickCard" \/ inner
    THEN {LowerStr(cardName) \o <<"-card-before-click.png">>,
          LowerStr(cardName) \o <<"-card-after-click.png">>}
  ELSE IF target.kind # "button" THEN {LowerStr(cardName) \o <<"-card-click.png">>}
  ELSE IF buttonText # <<>> THEN {LowerStr(buttonText) \o <<"-button-found.png">>}
  ELSE {<<"card-button-found.png">>}

(* ClickTail with one more look at the element after the click *)
ClickTailRecheck(name) ==
  IF name \in {"direct", "visual"}
    THEN <<"handle.isVisible", "page.waitForTimeout", "page.screenshot">>
    ELSE <<"handle.isVisible", "page.waitForTimeout">>

(* the host calls an operation makes after the click on the element has resolved:   *)
(* the direct approaches and strategy 5 wait and take a screenshot, the methods of  *)
(* PortalPage and DashboardPage wait 1 s and take the after-click screenshot, the   *)
(* strategies return true to the loop, which waits 1 s                              *)
ClickTail(name) ==
  IF name \in {"direct", "visual", "card"}
    THEN <<"page.waitForTimeout", "page.screenshot">>
    ELSE <<"page.waitForTimeout">>

ClickRunning(k) == op = "click" /\ pc = k

(* a host call made on the closed page rejects: the catch block ends the operation *)
ClickCatch ==
  /\ hostOutcome' = "closed"
  /\ retval' = ClickCaught("closed").ret /\ threw' = ClickCaught("closed").threw
  /\ shots' = Shot(ErrorShotName)
  /\ pc' = "done"

FallbackTargetAlways(r, flag) == CardTarget(r)

(* if (clickCardIfNoButton) { ... card.click() ... } else return false *)
FallbackTarget(r, flag) == IF flag THEN CardTarget(r) ELSE NoTarget

(* const card = await this.findCard(cardName); if (!card) return false;               *)
(* findCard (above) never throws; PortalPage.findCard runs waitForPortalPageLoad first *)
ClickFind ==
  /\ ClickRunning("k_find")
  /\ LET r == FindCardResult(cls, QueryAll(cards, scrollPos), cards, cardName, otherText, pageOpen)
         s1 == IF r.kind # "null" THEN Shot(FoundShotName(cardName, r.kind))
               ELSE Shot(IF r.err THEN <<"error-finding-card.png">> ELSE <<"card-not-found.png">>)
     IN  /\ found' = r
         /\ scrollPos' = IF r.kind # "null" THEN r.idx ELSE scrollPos
         /\ \E w \in {<<"portal-page-cards-loaded.png">>, <<"portal-page-load-error.png">>} :
              shots' = IF cls = "PortalPage" /\ pageOpen THEN s1 \cup {w} ELSE s1
         /\ IF r.kind = "null"
              THEN /\ retval' = JsFalse /\ pc' = "done"
                   /\ UNCHANGED target
              ELSE /\ retval' = retval
                   /\ IF method = "clickCard" \/ inner
                        THEN pc' = "k_click" /\ target' = CardTarget(r)
                        ELSE pc' = "k_search" /\ UNCHANGED target
  /\ UNCHANGED <<op, cls, pageOpen, cards, now, threw, waitVars, loadVars,
                 cardName, otherText, calls, res, scrollAtCall, clicks, timedWaits,
                 docChanged, docAtCall, navVars, scnVars,
                 method, buttonText, clickIfNone, btns, outsideBtn, inner, clicked, loginVars,
                 reqVars, parVars, stratVars>>

(* clickCardButton: the search for the button, then the card itself or 'return false' *)
ClickSearchButton ==
  /\ ClickRunning("k_search") /\ method = "clickCardButton"
  /\ IF ~pageOpen
       THEN ClickCatch /\ UNCHANGED target
       ELSE /\ \E near \in BOOLEAN :
                 LET b == ChooseButton(found, btns, outsideBtn, buttonText, near)
                 IN  target' = IF b.kind # "none" THEN b ELSE FallbackTarget(found, clickIfNone)
            /\ IF target'.kind # "none"
                 THEN pc' = "k_click" /\ UNCHANGED <<retval, shots>>
                 ELSE /\ retval' = JsFalse /\ pc' = "done"
                      /\ shots' = Shot(<<"button-not-found.png">>)
            /\ UNCHANGED <<threw, hostOutcome>>
  /\ UNCHANGED <<op, cls, pageOpen, cards, now, waitVars, lsState, signalAt, findVars, navVars,
                 scnVars, method, buttonText, clickIfNone, btns, outsideBtn, found, inner, clicked,
                 loginVars,
                 reqVars, parVars, stratVars>>

(* clickCardIcon: card.$(selector) and isVisible(); else the in-page search, which *)
(* clicks what it finds; else this.clickCard(cardName) or 'return false'           *)
ClickSearchIcon ==
  /\ ClickRunning("k_search") /\ method = "clickCardIcon"
  /\ IF ~pageOpen
       THEN ClickCatch /\ UNCHANGED <<target, clicked, clicks, inner, now, issued>>
       ELSE /\ UNCHANGED <<threw, hostOutcome>>
            /\ \E icon \in {"visible", "alternative", "none"} :
                 IF icon = "visible"
                   THEN /\ target' = IconTarget(found) /\ pc' = "k_click"
                        /\ UNCHANGED <<retval, shots, clicked, clicks, inner, now, issued>>
                 ELSE IF icon = "alternative"
                   THEN /\ target' = IconTarget(found)
                        /\ clicked' = Append(clicked, IconTarget(found))
                        /\ clicks' = clicks + 1
                        /\ issued' = issued \o <<"handle.evaluate:clicked">> \o ClickTail("card")
                        /\ now' = now + WaitElapsed(PollInterval)
                        /\ shots' = Shot(LowerStr(cardName) \o <<"-icon-alternative-click.png">>)
                        /\ retval' = JsTrue /\ pc' = "done"
                        /\ UNCHANGED inner
                 ELSE IF clickIfNone
                   THEN /\ inner' = TRUE /\ pc' = "k_find"
                        /\ UNCHANGED <<target, retval, shots, clicked, clicks, now, issued>>
                   ELSE /\ retval' = JsFalse /\ pc' = "done"
                        /\ shots' = Shot(<<"icon-not-found.png">>)
                        /\ UNCHANGED <<target, clicked, clicks, inner, now, issued>>
  /\ UNCHANGED <<op, cls, pageOpen, cards, waitVars, lsState, signalAt,
                 cardName, otherText, calls, res, scrollPos, scrollAtCall, timedWaits,
                 docChanged, docAtCall, navVars, scnVars,
                 method, buttonText, clickIfNone, btns, outsideBtn, found,
                 rememberMe, loginStep, completed, inflight, failedAt, shotTried,
                 reqVars, parVars, stratVars>>

(* scrollIntoViewIfNeeded, takeScreenshot, click({ force: true }), wait(1000), return true *)
ClickPerform ==
  /\ ClickRunning("k_click")
  /\ IF ~pageOpen
       THEN ClickCatch /\ UNCHANGED <<clicked, clicks, now, issued>>
       ELSE /\ clicked' = Append(clicked, target)
            /\ clicks' = clicks + 1
            /\ issued' = issued \o <<"handle.scrollIntoViewIfNeeded", "page.screenshot",
                                      "handle.click:ok">>
                                 \o ClickTail(IF target.kind = "icon" \/ method = "clickCard" \/ inner
                                                THEN "card" ELSE "button")
            /\ now' = now + WaitElapsed(PollInterval)
            /\ shots' = shots \cup ClickShots
            /\ retval' = JsTrue /\ pc' = "done"
            /\ UNCHANGED <<threw, hostOutcome>>
  /\ UNCHANGED <<op, cls, pageOpen, cards, waitVars, lsState, signalAt,
                 cardName, otherText, calls, res, scrollPos, scrollAtCall, timedWaits,
                 docChanged, docAtCall, navVars, scnVars,
                 method, buttonText, clickIfNone, btns, outsideBtn, found, target, inner,
                 rememberMe, loginStep, completed, inflight, failedAt, shotTried,
                 reqVars, parVars, stratVars>>

(* ---------------- loginAndWaitForNavigation (LoginPage, EllucianLoginPage) ---------------- *)
LoginLoadTimeout == 10000
EllucianLoadTimeout == 20000
LoginSettleWait == 1000

LoginClasses == {"LoginPage", "EllucianLoginPage"}

LoginProgramClickEarly(class, remember) ==
  <<"goto", "sel-user", "sel-pass", "sel-submit", "fill-user", "click-submit", "fill-pass",
    "loadstate", "wait", "shot-after">>

(* the host calls of the flow in the order of its awaits: navigateToLoginPage (navigate, *)
(* waitForLoginForm), login (enterUsername, enterPassword, clickLoginButton), the wait   *)
(* for the load state, the settling wait, the screenshot                                 *)
LoginProgram(class, remember) ==
  IF class = "LoginPage"
    THEN <<"goto", "sel-user", "sel-pass", "sel-submit", "fill-user", "fill-pass",
           "click-submit", "loadstate", "wait", "shot-after">>
    ELSE <<"goto", "sel-user", "sel-pass", "sel-submit", "shot-at-login", "fill-user",
           "fill-pass">>
         \o (IF remember THEN <<"toggle">> ELSE <<>>)
         \o <<"click-submit", "loadstate", "wait", "shot-after">>

(* calls whose rejection is swallowed where they are made: BasePage.waitForLoadState, *)
(* BasePage.wait, BasePage.takeScreenshot, toggleRememberMe                           *)
Swallowed == {"loadstate", "wait", "shot-after", "shot-at-login", "toggle"}

ShotFile(class, c) ==
  IF c = "shot-at-login" THEN <<"at-login-page.png">>
  ELSE IF class = "LoginPage" THEN <<"after-login.png">>
  ELSE <<"after-login-navigation.png">>

(* the catch blocks of EllucianLoginPage's own steps, which screenshot and re-throw *)
InnerErrorShots(class, c) ==
  IF class = "LoginPage" THEN <<>>
  ELSE IF c \in {"sel-user", "sel-pass", "sel-submit"} THEN << <<"login-form-error.png">> >>
  ELSE IF c = "fill-user" THEN << <<"username-error.png">> >>
  ELSE IF c = "fill-pass" THEN << <<"password-error.png">> >>
  ELSE IF c = "click-submit" THEN << <<"login-button-error.png">> >>
  ELSE <<>>

OuterErrorShot(class) ==
  IF class = "LoginPage" THEN <<"login-error.png">> ELSE <<"login-process-error.png">>

LoadBudget(class) == IF class = "LoginPage" THEN LoginLoadTimeout ELSE EllucianLoadTimeout

(* how the host may settle a call: done, rejected with a TimeoutError, rejected because *)
(* the page is closed; waitForTimeout and screenshot do not time out                     *)
CallOutcomes(c) ==
  IF ~pageOpen THEN {"closed"}
  ELSE IF c \in {"wait", "shot-after", "shot-at-login"} THEN {"resolved"}
  ELSE {"resolved", "timeout"}

LoginCaughtSwallow(c) == [threw |-> FALSE, shot |-> TRUE]

(* catch (error) { ...; await this.takeScreenshot('login-error.png'); throw error } *)
LoginCaught(c) == [threw |-> TRUE, shot |-> TRUE]

LoginRunning(k) == op = "login" /\ pc = k

(* the flow reaches its next await: the host call is issued *)
LoginIssue ==
  /\ LoginRunning("g_run")
  /\ inflight = "none"
  /\ loginStep < Len(LoginProgram(cls, rememberMe))
  /\ LET c == LoginProgram(cls, rememberMe)[loginStep + 1]
     IN  /\ inflight' = c
         /\ issued' = Append(issued, c)
         /\ timeout' = IF c = "loadstate" THEN LoadBudget(cls) ELSE timeout
         /\ shotTried' = IF c \in {"shot-after", "shot-at-login"}
                           THEN Append(shotTried, ShotFile(cls, c)) ELSE shotTried
         /\ clicks' = IF c \in {"goto", "fill-user", "fill-pass", "click-submit"}
                        THEN clicks + 1 ELSE clicks
  /\ UNCHANGED <<op, cls, pc, pageOpen, cards, now, retval, threw, shots,
                 waitVars, loadVars, cardName, otherText, calls, res, scrollPos, scrollAtCall,
                 timedWaits, docChanged, docAtCall, navVars, scnVars, clickVars,
                 rememberMe, loginStep, completed, failedAt,
                 reqVars, parVars, stratVars>>

(* the host settles the call; a rejection of a call that is not swallowed goes to the *)
(* catch block of the flow, after the step's own catch block (EllucianLoginPage)      *)
LoginSettle ==
  /\ LoginRunning("g_run")
  /\ inflight # "none"
  /\ \E o \in CallOutcomes(inflight) :
       /\ hostOutcome' = o
       /\ now' = IF inflight = "loadstate" /\ o = "timeout" THEN now + LoadBudget(cls)
                 ELSE IF inflight = "wait" /\ o = "resolved"
                   THEN now + SafeMs(IF cls = "LoginPage" THEN LoginSettleWait ELSE SettleWait)
                 ELSE now
       /\ shots' = IF o = "resolved" /\ inflight \in {"shot-after", "shot-at-login"}
                     THEN shots \cup {ShotFile(cls, inflight)} ELSE shots
       /\ IF o = "resolved" \/ inflight \in Swallowed
            THEN /\ loginStep' = loginStep + 1
                 /\ pc' = IF loginStep + 1 = Len(LoginProgram(cls, rememberMe))
                            THEN "done" ELSE "g_run"
                 /\ UNCHANGED <<failedAt, shotTried>>
            ELSE /\ pc' = "g_catch"
                 /\ failedAt' = inflight
                 /\ shotTried' = shotTried \o InnerErrorShots(cls, inflight)
                 /\ UNCHANGED loginStep
  /\ completed' = Append(completed, inflight)
  /\ inflight' = "none"
  /\ retval' = IF pc' = "done" /\ cls = "EllucianLoginPage" THEN "PortalPage" ELSE retval
  /\ UNCHANGED <<op, cls, pageOpen, cards, threw, waitVars, lsState, signalAt,
                 findVars, navVars, scnVars, clickVars, rememberMe, issued,
                 reqVars, parVars, stratVars>>

(* the catch block of the flow: the diagnostic screenshot, then the error goes to the caller *)
LoginCatch ==
  /\ LoginRunning("g_catch")
  /\ shotTried' = IF LoginCaught(failedAt).shot
                    THEN Append(shotTried, OuterErrorShot(cls)) ELSE shotTried
  /\ shots' = IF LoginCaught(failedAt).shot THEN Shot(OuterErrorShot(cls)) ELSE shots
  /\ threw' = LoginCaught(failedAt).threw
  /\ pc' = "done"
  /\ UNCHANGED <<op, cls, pageOpen, cards, now, retval, waitVars, loadVars,
                 findVars, navVars, scnVars, clickVars,
                 rememberMe, loginStep, issued, completed, inflight, failedAt,
                 reqVars, parVars, stratVars>>

(* ---------------- RequirementsPage.waitOnRequirementsPage ---------------- *)
MsPerSecond == 1000

(* console.log(...); await this.wait(seconds * 1000): the call reaches its await *)
ReqWaitCall ==
  /\ op = "rwait" /\ pc = "r_call"
  /\ startTime' = now
  /\ timeout' = seconds * MsPerSecond
  /\ pc' = "r_wait"
  /\ UNCHANGED <<op, cls, pageOpen, cards, now, retval, threw, shots,
                 previousCardCount, currentCardCount, stableCount, attempt, hist,
                 polledLate, outcome, loadVars, findVars, navVars, flowVars>>

(* BasePage.wait settles: page.waitForTimeout(Math.min(ms, 5000)), its error swallowed *)
ReqWaitDone ==
  /\ op = "rwait" /\ pc = "r_wait"
  /\ now' = now + WaitElapsed(timeout)
  /\ retval' = Undefined
  /\ pc' = "done"
  /\ UNCHANGED <<op, cls, pageOpen, cards, threw, shots, waitVars, loadVars,
                 findVars, navVars, flowVars>>

(* ---------------- two test functions run by parallel workers ---------------- *)
Workers == {1, 2}

(* the screenshot files a test function writes, through its page objects and directly, *)
(* in the order of its steps; paths are relative to the one working directory          *)
ShotPaths(t) ==
  IF t = "requirements" THEN
    << <<"login-page.png">>, <<"portal-page-cards-loaded.png">>, <<"portal-page-loaded.png">>,
       <<"dashboard-fully-loaded.png">>, <<"dashboard-page-loaded.png">>,
       <<"requirements-page-loaded.png">> >>
  ELSE IF t = "signup" THEN
    << <<"after-login.png">>, <<"screenshots/after-login.png">>,
       <<"portal-page-cards-loaded.png">>, <<"screenshots/portal-cards-loaded.png">>,
       <<"dashboard-fully-loaded.png">>, <<"screenshots/dashboard-cards-loaded.png">> >>
  ELSE
    << <<"after-login.png">>, <<"screenshots/after-login.png">>,
       <<"portal-page-cards-loaded.png">>, <<"screenshots/portal-cards-loaded.png">>,
       <<"screenshots/after-card-navigation.png">>, <<"screenshots/test-completed.png">> >>

(* page.screenshot({ path }) of worker w: the file is created or overwritten *)
ParShot ==
  /\ op = "par" /\ pc = "w_run"
  /\ \E w \in Workers :
       /\ parStep[w] < Len(ShotPaths(parScn[w]))
       /\ written' = written \cup {[path |-> ShotPaths(parScn[w])[parStep[w] + 1], worker |-> w]}
       /\ parStep' = [parStep EXCEPT ![w] = parStep[w] + 1]
  /\ pc' = IF \A w \in Workers : parStep'[w] = Len(ShotPaths(parScn[w])) THEN "done" ELSE "w_run"
  /\ UNCHANGED <<op, cls, pageOpen, cards, now, retval, threw, shots, waitVars, loadVars,
                 findVars, navVars, scnVars, clickVars, loginVars, reqVars, parScn, stratVars>>

(* ---------------- the test functions (scenarios) ---------------- *)
(* 'Navigate to Requirements1112 from Portal Dashboard', 'Navigate to Eventtt Signup *)
(* from Portal Dashboard' and 'Navigate to International Student card and access    *)
(* Portal Features', as the sequence of their statements                            *)
Scenarios == {"requirements", "signup", "features"}

ConfigKeys == {"url", "Username", "Password"}

PageObjects ==
  {"loginPage", "portalPage", "dashboardPage", "requirementsPage", "internationalStudentPage"}

EmptyString == ""

(* process.env after require('dotenv').config(): a key missing from .env is undefined, *)
(* a key written without a value is the empty string                                   *)
EnvValues == {Undefined, EmptyString, "configured"}

(* the literals written in the test files *)
DefaultValue ==
  [url |-> "https://experience-dev-devinternal.elluciancloud.com/ebuildcanadaglobal/",
   Username |-> "vberg",
   Password |-> "111111"]

(* JavaScript truthiness of a string or undefined *)
Falsy(v) == v \in {Undefined, EmptyString}

(* v || d *)
OrDefault(v, d) == IF Falsy(v) THEN d ELSE v

Stmt(k, o, f) == [kind |-> k, obj |-> o, fn |-> f]

Program(t) ==
  IF t = "requirements" THEN
    << Stmt("env", "none", "process.env"),
       Stmt("verify", "none", "if"),
       Stmt("call", "loginPage", "navigateToLoginPage"),
       Stmt("call", "loginPage", "login"),
       Stmt("call", "portalPage", "waitForPortalPageLoad"),
       Stmt("click", "portalPage", "clickCardButton"),
       Stmt("nav", "portalPage", "waitForNavigationAfterButtonClick"),
       Stmt("call", "dashboardPage", "waitForDashboardPageLoad"),
       Stmt("call", "dashboardPage", "isDashboardLoaded"),
       Stmt("click", "dashboardPage", "clickCard"),
       Stmt("nav", "dashboardPage", "waitForNavigationAfterButtonClick"),
       Stmt("call", "requirementsPage", "waitForRequirementsPageLoad") >>
  ELSE IF t = "signup" THEN
    << Stmt("env", "none", "process.env"),
       Stmt("verify", "none", "if"),
       Stmt("call", "loginPage", "loginAndWaitForNavigation"),
       Stmt("call", "portalPage", "waitForPortalPageLoad"),
       Stmt("click", "portalPage", "clickCardButton"),
       Stmt("nav", "portalPage", "waitForNavigationAfterButtonClick"),
       Stmt("call", "dashboardPage", "waitForDashboardPageLoad"),
       Stmt("call", "dashboardPage", "isDashboardLoaded"),
       Stmt("click", "dashboardPage", "clickCardButton"),
       Stmt("nav", "dashboardPage", "waitForNavigationAfterButtonClick") >>
  ELSE
    << Stmt("literals", "none", "const"),
       Stmt("call", "loginPage", "loginAndWaitForNavigation"),
       Stmt("shot", "loginPage", "screenshots/after-login.png"),
       Stmt("call", "portalPage", "waitForPortalPageLoad"),
       Stmt("click", "portalPage", "clickCard"),
       Stmt("nav", "portalPage", "waitForNavigationAfterButtonClick"),
       Stmt("shot", "newPage", "screenshots/after-card-navigation.png"),
       Stmt("new", "internationalStudentPage", "InternationalStudentPage"),
       Stmt("click", "internationalStudentPage", "clickSettingsIcon"),
       Stmt("click", "internationalStudentPage", "clickPortalFeatures"),
       Stmt("call", "internationalStudentPage", "waitForPortalFeaturesContent") >>

(* the page objects the test function constructs with the fixture page before its first step *)
BuiltAtStart(t) ==
  IF t = "requirements" THEN {"loginPage", "portalPage", "dashboardPage", "requirementsPage"}
  ELSE IF t = "signup" THEN {"loginPage", "portalPage", "dashboardPage"}
  ELSE {"loginPage", "portalPage"}

AtStmt(k) ==
  /\ op = "scn" /\ pc = "s_run"
  /\ step < Len(Program(scn))
  /\ Program(scn)[step + 1].kind = k

CurStmt == Program(scn)[step + 1]

(* the statement is done: the next one, or the end of the test function *)
Advance ==
  /\ step' = step + 1
  /\ pc' = IF step + 1 = Len(Program(scn)) THEN "done" ELSE "s_run"

LogEntry(f, t) == [fn |-> f, tab |-> t, active |-> activeTab]

(* const url = process.env.url || '...'; const username = ...; const password = ... *)
ScnReadConfig ==
  /\ AtStmt("env")
  /\ cfg' = [k \in ConfigKeys |-> OrDefault(env[k], DefaultValue[k])]
  /\ Advance
  /\ UNCHANGED <<op, cls, pageOpen, cards, now, retval, threw, shots, waitVars, loadVars,
                 findVars, navVars, scn, env, poPage, activeTab, log, clickVars, loginVars,
                 reqVars, parVars, stratVars>>

(* const portalUrl = '...'; const username = 'vberg'; const password = '111111' *)
ScnLiterals ==
  /\ AtStmt("literals")
  /\ cfg' = DefaultValue
  /\ Advance
  /\ UNCHANGED <<op, cls, pageOpen, cards, now, retval, threw, shots, waitVars, loadVars,
                 findVars, navVars, scn, env, poPage, activeTab, log, clickVars, loginVars,
                 reqVars, parVars, stratVars>>

(* if (!url || !username || !password) throw new Error('Required environment variables ...') *)
ScnVerify ==
  /\ AtStmt("verify")
  /\ IF \E k \in ConfigKeys : Falsy(cfg[k])
       THEN threw' = TRUE /\ pc' = "done" /\ step' = step
       ELSE threw' = threw /\ Advance
  /\ UNCHANGED <<op, cls, pageOpen, cards, now, retval, shots, waitVars, loadVars,
                 findVars, navVars, scn, env, cfg, poPage, activeTab, log, clickVars, loginVars,
                 reqVars, parVars, stratVars>>

(* await somePage.someMethod(...): the method works on this.page of its page object *)
ScnCall ==
  /\ AtStmt("call")
  /\ log' = Append(log, LogEntry(CurStmt.fn, poPage[CurStmt.obj]))
  /\ Advance
  /\ UNCHANGED <<op, cls, pageOpen, cards, now, retval, threw, shots, waitVars, loadVars,
                 findVars, navVars, scn, env, cfg, poPage, activeTab, clickVars, loginVars,
                 reqVars, parVars, stratVars>>

(* a clicking method: the portal answers the click in the same tab or opens a new one *)
ScnClick ==
  /\ AtStmt("click")
  /\ log' = Append(log, LogEntry(CurStmt.fn, poPage[CurStmt.obj]))
  /\ \/ UNCHANGED pages
     \/ /\ NewTabId(pages, 0) <= MaxPages
        /\ pages' = Append(pages, NewTabId(pages, 0))
  /\ Advance
  /\ UNCHANGED <<op, cls, pageOpen, cards, now, retval, threw, shots, waitVars, loadVars,
                 findVars, thisPage, pagesSnap, ctxValid, navRet, clickTab,
                 scn, env, cfg, poPage, activeTab, clickVars, loginVars,
                 reqVars, parVars, stratVars>>

(* await xPage.waitForNavigationAfterButtonClick(context), its value kept (features) or not *)
ScnNav ==
  /\ AtStmt("nav")
  /\ \E o \in {"resolved", "timeout"} :
       /\ hostOutcome' = o
       /\ navRet' = NavResult(pages, poPage[CurStmt.obj], o)
  /\ pagesSnap' = pages
  /\ activeTab' = navRet'.id
  /\ Advance
  /\ UNCHANGED <<op, cls, pageOpen, cards, now, retval, threw, shots, waitVars,
                 lsState, signalAt, findVars, pages, thisPage, ctxValid, clickTab,
                 scn, env, cfg, poPage, log, clickVars, loginVars,
                 reqVars, parVars, stratVars>>

(* const internationalStudentPage = new InternationalStudentPage(newPage) *)
ScnConstruct ==
  /\ AtStmt("new")
  /\ poPage' = [poPage EXCEPT ![CurStmt.obj] = navRet.id]
  /\ Advance
  /\ UNCHANGED <<op, cls, pageOpen, cards, now, retval, threw, shots, waitVars, loadVars,
                 findVars, navVars, scn, env, cfg, activeTab, log, clickVars, loginVars,
                 reqVars, parVars, stratVars>>

(* a screenshot statement of the test function: 'await xPage.takeScreenshot(path)', *)
(* which swallows a failure of the host (BasePage.takeScreenshot), or the direct    *)
(* 'await newPage.screenshot({ path })', whose rejection ends the test as failed    *)
ScnShot ==
  /\ AtStmt("shot")
  /\ log' = IF CurStmt.obj = "newPage" THEN log
            ELSE Append(log, LogEntry("takeScreenshot", poPage[CurStmt.obj]))
  /\ IF dom.writable
       THEN shots' = shots \cup {<<CurStmt.fn>>} /\ threw' = threw /\ Advance
       ELSE IF CurStmt.obj = "newPage"
         THEN threw' = TRUE /\ pc' = "done" /\ step' = step /\ shots' = shots
         ELSE shots' = shots /\ threw' = threw /\ Advance
  /\ UNCHANGED <<op, cls, pageOpen, cards, now, retval, waitVars, loadVars,
                 findVars, navVars, scn, env, cfg, poPage, activeTab, clickVars, loginVars,
                 reqVars, parVars, stratVars>>

(* ---------------- EllucianLoginPage.toggleRememberMe ---------------- *)
NoDom == [kind |-> "none"]

NeedsClickWhenAsked(check, isChecked) == check

(* (check && !isChecked) || (!check && isChecked) *)
NeedsClick(check, isChecked) == (check /\ ~isChecked) \/ (~check /\ isChecked)

(* what a call of toggleRememberMe leaves behind it: whether it clicked, whether the host failed *)
ToggleCall(c, e) == [clicked |-> c, error |-> e]

(* the call returns (it has no return statement); the test calls it a second time at once *)
ToggleReturn(c, e) ==
  /\ trail' = Append(trail, ToggleCall(c, e))
  /\ calls' = calls + 1
  /\ retval' = Undefined
  /\ pc' = IF calls + 1 = 2 THEN "done" ELSE "t_eval"

(* const isChecked = await this.page.$eval(this.rememberMeCheckbox, el => el.checked): *)
(* rejects when the page is closed or nothing matches the selector                     *)
ToggleRead ==
  /\ op = "toggle" /\ pc = "t_eval"
  /\ IF ~pageOpen \/ dom.box = "absent"
       THEN ToggleReturn(FALSE, TRUE)
       ELSE IF NeedsClick(rememberMe, dom.box = "checked")
         THEN pc' = "t_click" /\ UNCHANGED <<trail, calls, retval>>
         ELSE ToggleReturn(FALSE, FALSE)
  /\ UNCHANGED <<op, cls, pageOpen, cards, now, threw, shots, waitVars, loadVars,
                 cardName, otherText, res, scrollPos, scrollAtCall, clicks, timedWaits,
                 docChanged, docAtCall, navVars, scnVars, clickVars, loginVars, reqVars,
                 parVars, dom>>

(* await this.page.click(this.rememberMeCheckbox): the click changes the state of the *)
(* checkbox; it rejects on a closed page and times out on a disabled checkbox         *)
ToggleClick ==
  /\ op = "toggle" /\ pc = "t_click"
  /\ IF ~pageOpen \/ ~dom.enabled
       THEN ToggleReturn(FALSE, TRUE) /\ UNCHANGED <<dom, clicks>>
       ELSE /\ dom' = [dom EXCEPT !.box = IF dom.box = "checked" THEN "unchecked" ELSE "checked"]
            /\ clicks' = clicks + 1
            /\ ToggleReturn(TRUE, FALSE)
  /\ UNCHANGED <<op, cls, pageOpen, cards, now, threw, shots, waitVars, loadVars,
                 cardName, otherText, res, scrollPos, scrollAtCall, timedWaits,
                 docChanged, docAtCall, navVars, scnVars, clickVars, loginVars, reqVars,
                 parVars>>

(* ---------------- InternationalStudentPage.waitForPortalFeaturesContent ---------------- *)
ContentSelectorTimeout == 5000
ContentIdleTimeout == 5000
ContentFinalWait == 2000

ContentStrategies == <<"main-content", "network-idle", "visible-text", "fixed-wait">>

(* what the awaited host call of a strategy does: waitForSelector / waitForLoadState *)
ContentHostOutcome(name) ==
  IF ~pageOpen THEN "closed"
  ELSE IF name = "main-content" THEN dom.main
  ELSE IF name = "network-idle" THEN dom.idle
  ELSE "resolved"

ContentResultIdleChecked(name) ==
  IF name = "main-content" THEN ContentHostOutcome(name) = "found"
  ELSE IF name = "network-idle" THEN ContentHostOutcome(name) = "resolved"
  ELSE IF name = "visible-text" THEN pageOpen /\ dom.text
  ELSE TRUE

(* the value the strategy returns: strategy 1 and 3 turn a rejection into false; strategy 2  *)
(* awaits takeScreenshot, this.waitForLoadState (a boolean it does not look at), this.wait   *)
(* and takeScreenshot, none of which throws, and returns true; strategy 4 returns true       *)
ContentResult(name) ==
  IF name = "main-content" THEN ContentHostOutcome(name) = "found"
  ELSE IF name = "network-idle" THEN TRUE
  ELSE IF name = "visible-text" THEN pageOpen /\ dom.text
  ELSE TRUE

ContentElapsed(name) ==
  IF name = "main-content"
    THEN (IF ContentHostOutcome(name) = "timeout" THEN ContentSelectorTimeout ELSE 0)
  ELSE IF name = "network-idle"
    THEN (IF ContentHostOutcome(name) = "timeout" THEN ContentIdleTimeout ELSE 0)
           + WaitElapsed(1000)
  ELSE IF name = "fixed-wait" THEN WaitElapsed(5000)
  ELSE 0

(* for (const strategy of strategies) { if (await strategy()) break; } : one strategy *)
ContentTry ==
  /\ op = "content" /\ pc = "c_loop"
  /\ LET name == ContentStrategies[Len(trail) + 1]
     IN  /\ trail' = Append(trail, name)
         /\ hostOutcome' = ContentHostOutcome(name)
         /\ now' = now + ContentElapsed(name)
         /\ shots' = IF name = "network-idle" /\ pageOpen
                       THEN shots \cup {<<"screenshots/before-content-wait.png">>,
                                        <<"screenshots/after-content-wait.png">>}
                       ELSE shots
         /\ pc' = IF ContentResult(name) \/ Len(trail) + 1 = Len(ContentStrategies)
                    THEN "c_final" ELSE "c_loop"
  /\ UNCHANGED <<op, cls, pageOpen, cards, retval, threw, waitVars, lsState, signalAt,
                 findVars, navVars, scnVars, clickVars, loginVars, reqVars, parVars, dom>>

(* await this.wait(2000); the last screenshot; the method ends without a return statement *)
ContentFinish ==
  /\ op = "content" /\ pc = "c_final"
  /\ now' = now + WaitElapsed(ContentFinalWait)
  /\ shots' = Shot(<<"screenshots/page-content-loaded.png">>)
  /\ retval' = Undefined
  /\ pc' = "done"
  /\ UNCHANGED <<op, cls, pageOpen, cards, threw, waitVars, loadVars,
                 findVars, navVars, flowVars>>

(* ---------------- DashboardPage.isDashboardLoaded ---------------- *)
LoadedApproaches == <<"content-selector", "page-title", "body-text">>

(* title.includes('Dashboard') || title.includes('Portal') || title.includes('Ellucian'), *)
(* the title taken as the set of its words                                               *)
TitleSaysDashboard(words) == words \cap {"Dashboard", "Portal", "Ellucian"} # {}

(* each approach sits in its own try/catch: a rejection of the host call is logged and *)
(* the next approach is tried; this.page.$(dashboardContentSelector) !== null, then    *)
(* the title, then bodyText && bodyText.length > 0                                     *)
ApproachResult(name) ==
  IF ~pageOpen THEN FALSE
  ELSE IF name = "content-selector" THEN dom.content
  ELSE IF name = "page-title" THEN TitleSaysDashboard(dom.title)
  ELSE dom.body

(* one approach: return true when it succeeds, return false after the last one *)
LoadedTry ==
  /\ op = "loaded" /\ pc = "i_try"
  /\ LET name == LoadedApproaches[Len(trail) + 1]
     IN  /\ trail' = Append(trail, name)
         /\ IF ApproachResult(name)
              THEN retval' = JsTrue /\ pc' = "done"
              ELSE IF Len(trail) + 1 = Len(LoadedApproaches)
                THEN retval' = JsFalse /\ pc' = "done"
                ELSE retval' = retval /\ pc' = "i_try"
  /\ UNCHANGED <<op, cls, pageOpen, cards, now, threw, shots, waitVars, loadVars,
                 findVars, navVars, scnVars, clickVars, loginVars, reqVars, parVars, dom>>

(* ---------------- InternationalStudentPage.clickSettingsIcon ---------------- *)
(* the direct approach (lines 36-81) followed by the five entries of 'strategies' *)
SettingsStrategies == <<"direct", "selector", "sidebar-icon", "in-page", "icon-class", "visual">>

(* the direct approach and strategy 5 wrap their body in their own try/catch; *)
(* strategies 1 to 4 do not                                                   *)
SettingsSelfCatching == {"direct", "visual"}

(* what the host does with the k-th strategy: it finds no element ("none"), the element *)
(* it finds takes the click ("click"), or an action on the element it finds rejects     *)
(* ("reject": the element is hidden or was detached); on a closed page every call rejects *)
SettingsOutcome(k) == IF ~pageOpen THEN "reject" ELSE dom.plan[k]

(* the screenshot taken when the strategy has found its element *)
SettingsFoundShot(name) ==
  IF name = "direct" THEN <<"screenshots/found-settings-link.png">>
  ELSE IF name = "selector" THEN <<"screenshots/settings-icon-found.png">>
  ELSE IF name = "sidebar-icon" THEN <<"screenshots/settings-icon-in-sidebar-found.png">>
  ELSE IF name = "in-page" THEN <<"screenshots/settings-icon-js-clicked.png">>
  ELSE IF name = "icon-class" THEN <<"screenshots/settings-icon-cog-found.png">>
  ELSE <<"screenshots/found-settings-element.png">>

(* the host calls of a strategy from the element it found on; the in-page strategy *)
(* finds and clicks inside page.evaluate and holds no handle                       *)
SettingsCalls(name, how) ==
  IF how = "none" THEN <<"page.query">>
  ELSE IF name = "in-page" THEN <<"page.evaluate(click)", "page.screenshot">>
  ELSE <<"page.query", "handle.scrollIntoViewIfNeeded", "page.screenshot">>
         \o (IF how = "click"
               THEN <<"handle.click:ok">> \o ClickTail(name)
               ELSE <<"handle.click:rejected">>)

(* one strategy: 'return true' when it clicked; a rejection inside a strategy without *)
(* its own try/catch reaches the outer catch, which returns false; a rejection inside *)
(* the direct approach or strategy 5 counts as 'not found'; after the last strategy   *)
(* 'settings-icon-not-found.png' and 'return false'                                   *)
SettingsTry ==
  /\ op = "settings" /\ pc = "s_loop"
  /\ LET k == Len(trail) + 1
         name == SettingsStrategies[k]
         o == SettingsOutcome(k)
         s0 == IF k = 1 THEN Shot(<<"screenshots/before-clicking-settings.png">>) ELSE shots
         s1 == IF pageOpen /\ o # "none" THEN s0 \cup {SettingsFoundShot(name)} ELSE s0
     IN  /\ trail' = Append(trail, name)
         /\ issued' = issued \o (IF pageOpen THEN SettingsCalls(name, o) ELSE <<"page.call:rejected">>)
         /\ hostOutcome' = o
         /\ IF o = "click"
              THEN /\ clicks' = clicks + 1
                   /\ now' = now + WaitElapsed(1000)
                   /\ shots' = IF name = "direct"
                                 THEN s1 \cup {<<"screenshots/after-clicking-settings.png">>}
                               ELSE IF name = "visual"
                                 THEN s1 \cup {<<"screenshots/after-clicking-settings-element.png">>}
                               ELSE s1
                   /\ retval' = JsTrue /\ pc' = "done"
            ELSE IF o = "reject" /\ name \notin SettingsSelfCatching
              THEN /\ shots' = IF pageOpen
                                 THEN s1 \cup {<<"screenshots/error-clicking-settings-icon.png">>}
                                 ELSE s1
                   /\ retval' = JsFalse /\ pc' = "done"
                   /\ UNCHANGED <<clicks, now>>
            ELSE IF k = Len(SettingsStrategies)
              THEN /\ shots' = IF pageOpen
                                 THEN s1 \cup {<<"screenshots/settings-icon-not-found.png">>}
                                 ELSE s1
                   /\ retval' = JsFalse /\ pc' = "done"
                   /\ UNCHANGED <<clicks, now>>
            ELSE /\ shots' = s1 /\ pc' = "s_loop"
                 /\ UNCHANGED <<retval, clicks, now>>
  /\ UNCHANGED <<op, cls, pageOpen, cards, threw, waitVars, lsState, signalAt,
                 cardName, otherText, calls, res, scrollPos, scrollAtCall, timedWaits,
                 docChanged, docAtCall, navVars, scnVars, clickVars,
                 rememberMe, loginStep, completed, inflight, failedAt, shotTried,
                 reqVars, parVars, dom>>

(* ---------------- InternationalStudentPage.clickPortalFeatures ---------------- *)
(* the direct approach (lines 292-370) followed by the five entries of 'strategies' *)
FeatureStrategies == <<"direct", "selector", "text", "in-page", "menu", "related">>

(* strategy 4 clicks the menu item it settles on 'with different methods': Method 1    *)
(* item.click({ force: true }), Method 2 page.evaluate with el.click() or, for an      *)
(* element without a click function, a dispatched MouseEvent, Method 3 page.evaluate   *)
(* with a dispatched MouseEvent                                                        *)
ChainAttempts == <<"forced-click", "in-page-click", "dispatch-event">>

NoEl == [tag |-> "none", text |-> <<>>, box |-> "none"]

(* texts are lower-cased and cut into the pieces the searches look for *)
HasText(e, piece) == Includes(e.text, piece)

(* whether the strategy finds the one candidate element e of the page: the selectors  *)
(* and text tests of lines 295-340, 16, 389-399, 415-458, 479-490 and 549, 657-661    *)
FeatureHit(name, e) ==
  /\ e.tag # "none"
  /\ IF name = "direct"
       THEN e.tag = "a" /\ (HasText(e, <<"portal", " ", "feature">>) \/ e.text = <<"feature", "s">>)
     ELSE IF name = "selector"
       THEN e.tag = "a" /\ HasText(e, <<"feature", "s">>)
     ELSE IF name = "text"
       THEN e.tag = "a" /\ (HasText(e, <<"feature", "s">>) \/ HasText(e, <<"portal">>))
     ELSE IF name = "in-page"
       THEN \/ e.tag = "a" /\ (HasText(e, <<"feature", "s">>) \/ HasText(e, <<"portal">>))
            \/ e.box = "dropdown"
     ELSE IF name = "menu"
       THEN e.box \in {"dropdown", "list"}
     ELSE e.tag = "a" /\ (HasText(e, <<"feature">>) \/ HasText(e, <<"setting">>))

(* how the strategy clicks what it found *)
FeatureClickKind(name) ==
  IF name = "direct" THEN "native"
  ELSE IF name = "in-page" THEN "el.click"
  ELSE IF name = "menu" THEN "chain"
  ELSE "forced"

(* what the host does with a click of the given kind on the element: "ok" or "reject"; *)
(* el.click() inside the page throws a TypeError on an element without a click         *)
(* function, and every call on a closed page rejects                                   *)
ClickReaction(kind) ==
  IF ~pageOpen THEN "reject"
  ELSE IF kind = "native" THEN dom.native
  ELSE IF kind = "forced" THEN dom.forced
  ELSE IF kind = "el.click" THEN (IF dom.el.tag = "svg" THEN "reject" ELSE "ok")
  ELSE dom.script

(* the in-page act of the n-th method of the chain *)
ChainAct(n) ==
  IF n = 1 THEN "forced"
  ELSE IF n = 2 THEN (IF dom.el.tag = "svg" THEN "event" ELSE "el.click")
  ELSE "event"

ChainReaction(n) ==
  IF ~pageOpen THEN "reject"
  ELSE IF n = 1 THEN dom.forced
  ELSE IF n = 2 THEN dom.script
  ELSE dom.event

(* the value the chain hands back once a method has worked *)
ChainReturnNamed(n) == ChainAttempts[n]

ChainReturn(n) == JsTrue

FeatureFoundShot(name) ==
  IF name = "direct" THEN <<"screenshots/portal-features-direct-found.png">>
  ELSE IF name = "selector" THEN <<"screenshots/portal-features-found.png">>
  ELSE IF name = "text" THEN <<"screenshots/portal-features-portal-found.png">>
  ELSE IF name = "in-page" THEN <<"screenshots/portal-features-js-clicked.png">>
  ELSE IF name = "menu" THEN <<"screenshots/first-menu-item-found.png">>
  ELSE <<"screenshots/related-term-feature-found.png">>

(* the host calls of a strategy from its query on *)
FeatureCalls(name, hit, how) ==
  IF name = "in-page" THEN
    (IF hit /\ how = "ok" THEN <<"page.evaluate(click)", "page.screenshot">>
     ELSE <<"page.evaluate(click)">>)
  ELSE IF ~hit THEN <<"page.query">>
  ELSE IF name = "menu"
    THEN <<"page.waitForTimeout", "page.query", "handle.query",
           "handle.scrollIntoViewIfNeeded", "page.screenshot">>
  ELSE (IF name = "direct"
          THEN <<"page.query", "handle.isVisible", "handle.scrollIntoViewIfNeeded",
                 "page.screenshot", "page.evaluate(handle)", "page.waitForTimeout">>
          ELSE <<"page.query", "handle.scrollIntoViewIfNeeded", "page.screenshot">>)
         \o (IF how = "ok" THEN <<"handle.click:ok">> \o ClickTail(name)
             ELSE <<"handle.click:rejected">>)

FeatureClicked(via) == [kind |-> "element", text |-> dom.el.text, via |-> via]

(* one strategy of the loop 'Try each strategy until one works' (lines 675-681), the  *)
(* direct approach first; strategies 1, 2, 3 and 5 have no try/catch of their own, so *)
(* a rejection ends the call in the outer catch with false                            *)
FeaturesTry ==
  /\ op = "features" /\ pc = "f_loop"
  /\ LET k == Len(trail) + 1
         name == FeatureStrategies[k]
         hit == pageOpen /\ FeatureHit(name, dom.el)
         kind == FeatureClickKind(name)
         how == ClickReaction(kind)
         s0 == IF k = 1 THEN Shot(<<"screenshots/before-clicking-portal-features.png">>)
               ELSE shots
         s1 == IF hit /\ (name # "in-page" \/ how = "ok")
                 THEN s0 \cup {FeatureFoundShot(name)} ELSE s0
     IN  /\ trail' = Append(trail, name)
         /\ issued' = issued \o (IF pageOpen THEN FeatureCalls(name, hit, how) ELSE <<"page.call:rejected">>)
         /\ hostOutcome' = IF ~pageOpen THEN "closed" ELSE IF hit THEN "found" ELSE "none"
         /\ IF hit /\ kind = "chain"
              THEN /\ pc' = "f_chain" /\ shots' = s1
                   /\ now' = now + WaitElapsed(1000)
                   /\ UNCHANGED <<retval, clicks, clicked>>
            ELSE IF hit /\ how = "ok"
              THEN /\ clicks' = clicks + 1
                   /\ clicked' = Append(clicked, FeatureClicked(kind))
                   /\ now' = now + WaitElapsed(1000)
                   /\ shots' = IF name = "direct"
                                 THEN s1 \cup {<<"screenshots/after-clicking-portal-features-direct.png">>}
                                 ELSE s1
                   /\ retval' = JsTrue /\ pc' = "done"
            ELSE IF (~pageOpen \/ hit) /\ name # "direct"
              THEN /\ shots' = IF pageOpen
                                 THEN s1 \cup {<<"screenshots/error-clicking-portal-features.png">>}
                                 ELSE s1
                   /\ retval' = JsFalse /\ pc' = "done"
                   /\ UNCHANGED <<clicks, clicked, now>>
            ELSE IF k = Len(FeatureStrategies)
              THEN /\ shots' = IF pageOpen
                                 THEN s1 \cup {<<"screenshots/portal-features-not-found.png">>}
                                 ELSE s1
                   /\ retval' = JsFalse /\ pc' = "done"
                   /\ UNCHANGED <<clicks, clicked, now>>
            ELSE /\ shots' = s1 /\ pc' = "f_loop"
                 /\ now' = now + (IF k = 1 THEN WaitElapsed(2000) ELSE 0)
                 /\ UNCHANGED <<retval, clicks, clicked>>
  /\ UNCHANGED <<op, cls, pageOpen, cards, threw, waitVars, lsState, signalAt,
                 cardName, otherText, calls, res, scrollPos, scrollAtCall, timedWaits,
                 docChanged, docAtCall, navVars, scnVars,
                 method, buttonText, clickIfNone, btns, outsideBtn, found, target, inner,
                 rememberMe, loginStep, completed, inflight, failedAt, shotTried,
                 reqVars, parVars, dom>>

(* one method of the chain: the next one is tried only when this one rejected; a  *)
(* rejection of the third reaches the outer catch; when one has worked strategy 4 *)
(* returns true and the loop waits 1 s and returns true                           *)
FeaturesAttempt ==
  /\ op = "features" /\ pc = "f_chain"
  /\ LET n == Len(trail) - 4
         how == ChainReaction(n)
     IN  /\ trail' = Append(trail, ChainAttempts[n])
         /\ hostOutcome' = how
         /\ issued' = issued \o
              (IF n = 1 THEN (IF how = "ok" THEN <<"handle.click:ok">> \o ClickTail("menu")
                              ELSE <<"handle.click:rejected">>)
               ELSE (IF how = "ok" THEN <<"page.evaluate(handle):clicked">> \o ClickTail("menu")
                     ELSE <<"page.evaluate(handle):rejected">>))
         /\ IF how = "ok"
              THEN /\ clicks' = clicks + 1
                   /\ clicked' = Append(clicked, FeatureClicked(ChainAct(n)))
                   /\ now' = now + WaitElapsed(1000)
                   /\ retval' = ChainReturn(n) /\ pc' = "done"
                   /\ UNCHANGED shots
            ELSE IF n = Len(ChainAttempts)
              THEN /\ shots' = Shot(<<"screenshots/error-clicking-portal-features.png">>)
                   /\ retval' = JsFalse /\ pc' = "done"
                   /\ UNCHANGED <<clicks, clicked, now>>
            ELSE /\ pc' = "f_chain"
                 /\ UNCHANGED <<retval, clicks, clicked, now, shots>>
  /\ UNCHANGED <<op, cls, pageOpen, cards, threw, waitVars, lsState, signalAt,
                 cardName, otherText, calls, res, scrollPos, scrollAtCall, timedWaits,
                 docChanged, docAtCall, navVars, scnVars,
                 method, buttonText, clickIfNone, btns, outsideBtn, found, target, inner,
                 rememberMe, loginStep, completed, inflight, failedAt, shotTried,
                 reqVars, parVars, dom>>

(* ---------------- environment ---------------- *)
(* the portal renders its cards incrementally: the number of cards changes *)
Render ==
  /\ op = "wait" /\ pc # "done" /\ pageOpen
  /\ \E n \in 0..MaxCards : n # Len(cards) /\ cards' = Blank(n)
  /\ UNCHANGED <<op, cls, pc, pageOpen, now, retval, threw, shots,
                 waitVars, loadVars, findVars, navVars, flowVars>>

(* the tab is closed under the running operation *)
ClosePage ==
  /\ \/ op = "wait" /\ pc # "done"
     \/ op = "load" /\ pc \in {"l_call", "l_wait"}
     \/ op = "find" /\ pc \in {"f_idle", "f_search"}
     \/ op = "click" /\ pc # "done"
     \/ op = "login" /\ pc # "done"
     \/ op = "rwait" /\ pc # "done"
     \/ op = "toggle" /\ pc # "done"
     \/ op \in {"content", "loaded", "settings", "features"} /\ pc # "done"
  /\ pageOpen
  /\ pageOpen' = FALSE
  /\ docChanged' = TRUE
  /\ UNCHANGED <<op, cls, pc, cards, now, retval, threw, shots, waitVars, loadVars,
                 cardName, otherText, calls, res, scrollPos, scrollAtCall, clicks,
                 timedWaits, docAtCall, navVars, flowVars>>

(* ---------------- initial states ---------------- *)
InitCommon ==
  /\ pageOpen = TRUE
  /\ now = 0 /\ startTime = 0
  /\ retval = Undefined /\ threw = FALSE /\ shots = {}
  /\ previousCardCount = 0 /\ currentCardCount = 0 /\ stableCount = 0 /\ attempt = 0
  /\ hist = <<0>> /\ polledLate = FALSE /\ outcome = "running"
  /\ hostOutcome = "none"
  /\ calls = 0 /\ res = <<>> /\ scrollPos = 0 /\ scrollAtCall = 0
  /\ clicks = 0 /\ timedWaits = 0 /\ docChanged = FALSE /\ docAtCall = <<>>
  /\ pagesSnap = <<>> /\ navRet = [kind |-> "none", id |-> 0]

InitWait ==
  /\ op = "wait"
  /\ \/ cls = "PortalPage" /\ pc = "p_sel1" /\ timeout \in PortalTimeouts
     \/ cls = "DashboardPage" /\ pc = "d_load1" /\ timeout \in DashTimeouts
  /\ cards \in {Blank(n) : n \in 0..MaxCards}
  /\ lsState = "domcontentloaded" /\ signalAt = 0
  /\ cardName = <<>> /\ otherText = <<>>
  /\ pages = <<1>> /\ thisPage = 1 /\ ctxValid = TRUE /\ clickTab = 0

InitLoad ==
  /\ op = "load" /\ cls = "BasePage" /\ pc = "l_call"
  /\ lsState \in LoadStates /\ timeout \in LoadTimeouts /\ signalAt \in SignalTimes
  /\ cards = <<>>
  /\ cardName = <<>> /\ otherText = <<>>
  /\ pages = <<1>> /\ thisPage = 1 /\ ctxValid = TRUE /\ clickTab = 0

(* the documents findCard is run on *)
Titles == {<<"A">>, <<"b">>}

Bodies == {<<>>, <<"a">>}

CardKinds ==
  [hasTitle : {TRUE}, title : Titles, body : Bodies, vis : {"visible", "covered", "nobox"}]
    \cup [hasTitle : {FALSE}, title : {<<>>}, body : Bodies, vis : {"visible", "covered", "nobox"}]

Documents == UNION {[1..n -> CardKinds] : n \in 0..MaxDocCards}

CardNames == {<<"a">>, <<"A">>}

InitFind ==
  /\ op = "find" /\ pc = "f_idle"
  /\ \/ cls = "PortalPage" /\ otherText = <<>>
     \/ cls = "DashboardPage" /\ otherText \in {<<>>, <<"A">>, <<"b">>}
  /\ cards \in Documents
  /\ cardName \in CardNames
  /\ timeout = PortalDefaultTimeout
  /\ lsState = "domcontentloaded" /\ signalAt = 0
  /\ pages = <<1>> /\ thisPage = 1 /\ ctxValid = TRUE /\ clickTab = 0

(* context.pages(): the open tabs in creation order; this.page may have been closed since *)
PageLists ==
  {ps \in UNION {[1..n -> 1..MaxPages] : n \in 0..MaxPages} :
     \A i \in 1..Len(ps) : \A j \in 1..Len(ps) : i < j => ps[i] < ps[j]}

(* the click came after this.page existed: the tab it has opened by now, if any, is the *)
(* newest page of the context and newer than this.page                                 *)
ClickTabs(ps, self) ==
  {0} \cup (IF ps # <<>> /\ ps[Len(ps)] > self THEN {ps[Len(ps)]} ELSE {})

InitNav ==
  /\ op = "nav" /\ pc = "n_call"
  /\ cls \in {"PortalPage", "DashboardPage"}
  /\ pages \in PageLists /\ thisPage \in 1..MaxPages /\ ctxValid \in BOOLEAN
  /\ clickTab \in ClickTabs(pages, thisPage)
  /\ timeout = NavLoadTimeout
  /\ cards = <<>>
  /\ lsState = "networkidle" /\ signalAt = 0
  /\ cardName = <<>> /\ otherText = <<>>

(* outside a scenario the variables of the test functions are at rest *)
ScnIdle ==
  /\ scn = "none" /\ step = 0
  /\ env = [k \in ConfigKeys |-> Undefined] /\ cfg = [k \in ConfigKeys |-> Undefined]
  /\ poPage = [o \in PageObjects |-> 0] /\ activeTab = 0 /\ log = <<>>

(* a page object's operation run on its own: no card document, one tab *)
PageIdle ==
  /\ cards = <<>> /\ timeout = NavLoadTimeout
  /\ lsState = "domcontentloaded" /\ signalAt = 0
  /\ cardName = <<>> /\ otherText = <<>>
  /\ pages = <<1>> /\ thisPage = 1 /\ ctxValid = TRUE /\ clickTab = 0

(* the test function has constructed its page objects with the fixture page (tab 1) *)
InitScn ==
  /\ op = "scn" /\ cls = "test" /\ pc = "s_run"
  /\ scn \in Scenarios /\ step = 0
  /\ env \in [ConfigKeys -> EnvValues]
  /\ cfg = [k \in ConfigKeys |-> Undefined]
  /\ poPage = [o \in PageObjects |-> IF o \in BuiltAtStart(scn) THEN 1 ELSE 0]
  /\ activeTab = 1 /\ log = <<>>
  /\ dom \in [kind : {"files"}, writable : BOOLEAN]
  /\ trail = <<>>
  /\ PageIdle

(* outside a click operation its variables are at rest *)
ClickIdle ==
  /\ method = "none" /\ buttonText = <<>> /\ clickIfNone = FALSE
  /\ btns = <<>> /\ outsideBtn = <<>>
  /\ found = NullResult /\ target = NoTarget /\ inner = FALSE /\ clicked = <<>>

(* the documents the click methods are run on: cards with a title and their buttons *)
ClickCards == [hasTitle : {TRUE}, title : Titles, body : {<<>>}, vis : {"visible"}]

ButtonTexts == {<<"A">>, <<"b">>}

ButtonLists == UNION {[1..n -> ButtonTexts] : n \in 0..MaxButtons}

(* the number of buttons in the cards of a document *)
RECURSIVE ButtonCount(_)
ButtonCount(bl) ==
  IF bl = <<>> THEN 0 ELSE Len(bl[Len(bl)]) + ButtonCount(SubSeq(bl, 1, Len(bl) - 1))

InitClick ==
  /\ op = "click" /\ pc = "k_find"
  /\ \/ cls = "PortalPage" /\ method \in ClickMethods /\ otherText = <<>>
     \/ cls = "DashboardPage" /\ method \in {"clickCard", "clickCardButton"}
          /\ otherText \in {<<>>, <<"A">>}
  /\ \E n \in 0..MaxClickCards :
       /\ cards \in [1..n -> ClickCards]
       /\ IF method = "clickCardButton"
            THEN btns \in {bl \in [1..n -> ButtonLists] : ButtonCount(bl) <= MaxButtons}
            ELSE btns = [i \in 1..n |-> <<>>]
  /\ IF method = "clickCardButton"
       THEN /\ buttonText \in {<<>>, <<"a">>}
            /\ outsideBtn \in {<<>>} \cup ButtonTexts
       ELSE buttonText = <<>> /\ outsideBtn = <<>>
  /\ clickIfNone \in (IF method = "clickCard" THEN {FALSE} ELSE BOOLEAN)
  /\ found = NullResult /\ target = NoTarget /\ inner = FALSE /\ clicked = <<>>
  /\ cardName = <<"a">>
  /\ timeout = PortalDefaultTimeout
  /\ lsState = "domcontentloaded" /\ signalAt = 0
  /\ pages = <<1>> /\ thisPage = 1 /\ ctxValid = TRUE /\ clickTab = 0

(* outside a login flow its variables are at rest *)
LoginIdle ==
  /\ rememberMe = FALSE /\ loginStep = 0
  /\ issued = <<>> /\ completed = <<>> /\ inflight = "none" /\ failedAt = "none"
  /\ shotTried = <<>>

InitLogin ==
  /\ op = "login" /\ pc = "g_run"
  /\ \/ cls = "LoginPage" /\ rememberMe = FALSE
     \/ cls = "EllucianLoginPage" /\ rememberMe \in BOOLEAN
  /\ loginStep = 0
  /\ issued = <<>> /\ completed = <<>> /\ inflight = "none" /\ failedAt = "none"
  /\ shotTried = <<>>
  /\ PageIdle

(* outside waitOnRequirementsPage and outside a parallel run *)
ReqIdle == seconds = 0

ParIdle == parScn = <<>> /\ parStep = <<>> /\ written = {}

SecondsArgs == 0..MaxSeconds

InitReqWait ==
  /\ op = "rwait" /\ cls = "RequirementsPage" /\ pc = "r_call"
  /\ seconds \in SecondsArgs
  /\ PageIdle

(* fullyParallel: two different test functions are started side by side *)
InitPar ==
  /\ op = "par" /\ cls = "test" /\ pc = "w_run"
  /\ parScn \in {ps \in [Workers -> Scenarios] : ps[1] # ps[2]}
  /\ parStep = [w \in Workers |-> 0]
  /\ written = {}
  /\ PageIdle

(* outside the strategy-driven operations their variables are at rest *)
StratIdle == dom = NoDom /\ trail = <<>>

(* the remember-me checkbox of the login form *)
InitToggle ==
  /\ op = "toggle" /\ cls = "EllucianLoginPage" /\ pc = "t_eval"
  /\ rememberMe \in BOOLEAN
  /\ dom \in [kind : {"login"}, box : {"absent", "checked", "unchecked"}, enabled : BOOLEAN]
  /\ trail = <<>>
  /\ loginStep = 0
  /\ issued = <<>> /\ completed = <<>> /\ inflight = "none" /\ failedAt = "none"
  /\ shotTried = <<>>
  /\ PageIdle

(* the page after the click on Portal Features: its main container may or may not *)
(* appear, its network may or may not fall idle, it may or may not show text      *)
InitContent ==
  /\ op = "content" /\ cls = "InternationalStudentPage" /\ pc = "c_loop"
  /\ dom \in [kind : {"content"}, main : {"found", "timeout"},
              idle : {"resolved", "timeout"}, text : BOOLEAN]
  /\ trail = <<>>
  /\ PageIdle

(* the pages isDashboardLoaded is called on: the loaded dashboard, the login page still *)
(* displayed after a failed login, a page that has not rendered anything yet           *)
LoadedPages ==
  [kind : {"dashboard"}, content : {TRUE}, title : {{"Dashboard"}, {"Home"}}, body : {TRUE}]
    \cup [kind : {"login"}, content : BOOLEAN,
          title : {{"Ellucian", "Login"}, {"Sign", "In"}}, body : {TRUE}]
    \cup [kind : {"blank"}, content : {FALSE}, title : {{}}, body : {FALSE}]

InitLoaded ==
  /\ op = "loaded" /\ cls = "DashboardPage" /\ pc = "i_try"
  /\ dom \in LoadedPages
  /\ trail = <<>>
  /\ PageIdle

(* the pages clickSettingsIcon is called on, by what each strategy meets; the in-page *)
(* strategy acts inside the page, where a click on an element does not reject         *)
SettingsPlans ==
  {p \in [1..6 -> {"none", "click", "reject"}] : p[4] # "reject"}

InitSettings ==
  /\ op = "settings" /\ cls = "InternationalStudentPage" /\ pc = "s_loop"
  /\ dom \in [kind : {"settings"}, plan : SettingsPlans]
  /\ trail = <<>>
  /\ PageIdle

(* the texts of the candidate element: 'Portal Features', 'Features', 'Portal Home', *)
(* 'Settings', 'Log out'                                                             *)
FeatureTexts ==
  {<<"portal", " ", "feature", "s">>, <<"feature", "s">>, <<"portal", " ", "home">>,
   <<"setting", "s">>, <<"log out">>}

(* the one visible candidate element of the page after the click on the settings icon: *)
(* a link, or an element without a click function (an SVG menu item), inside a         *)
(* '.dropdown-menu' / '[role="menu"]', inside another container strategy 4 takes for a *)
(* menu (a list, a popover), or in neither; or no candidate at all                     *)
FeatureElements ==
  [tag : {"a"}, text : FeatureTexts, box : {"none", "dropdown", "list"}]
    \cup [tag : {"svg"}, text : FeatureTexts, box : {"dropdown", "list"}]
    \cup {NoEl}

Reactions == {"ok", "reject"}

InitFeatures ==
  /\ op = "features" /\ cls = "InternationalStudentPage" /\ pc = "f_loop"
  /\ dom \in [kind : {"features"}, el : FeatureElements, native : Reactions,
              forced : Reactions, script : Reactions, event : Reactions]
  /\ trail = <<>>
  /\ PageIdle

Init ==
  /\ InitCommon
  /\ \/ /\ InitWait \/ InitLoad \/ InitFind \/ InitNav
        /\ ScnIdle /\ ClickIdle /\ LoginIdle /\ ReqIdle /\ ParIdle /\ StratIdle
     \/ InitScn /\ ClickIdle /\ LoginIdle /\ ReqIdle /\ ParIdle
     \/ InitClick /\ ScnIdle /\ LoginIdle /\ ReqIdle /\ ParIdle /\ StratIdle
     \/ InitLogin /\ ScnIdle /\ ClickIdle /\ ReqIdle /\ ParIdle /\ StratIdle
     \/ InitReqWait /\ ScnIdle /\ ClickIdle /\ LoginIdle /\ ParIdle /\ StratIdle
     \/ InitPar /\ ScnIdle /\ ClickIdle /\ LoginIdle /\ ReqIdle /\ StratIdle
     \/ InitToggle /\ ScnIdle /\ ClickIdle /\ ReqIdle /\ ParIdle
     \/ /\ InitContent \/ InitLoaded \/ InitSettings \/ InitFeatures
        /\ ScnIdle /\ ClickIdle /\ LoginIdle /\ ReqIdle /\ ParIdle

Next ==
  \/ PortalSelMain \/ PortalSelContainer \/ PortalSelCards
  \/ PortalWait \/ PortalPoll \/ PortalExit \/ PortalCatch
  \/ DashLoadDom \/ DashLoadIdle \/ DashSelContent \/ DashSelContainer \/ DashSelCards
  \/ DashFirstQuery \/ DashIterate \/ DashWait \/ DashPoll \/ DashSettle \/ DashImages
  \/ DashFinish
  \/ LoadCall \/ LoadSettle \/ LoadReturn
  \/ FindCall \/ FindSearch \/ ChangeDoc
  \/ NavRead \/ NavWaitNew \/ NavWaitCurrent \/ OpenTab
  \/ ClickFind \/ ClickSearchButton \/ ClickSearchIcon \/ ClickPerform
  \/ LoginIssue \/ LoginSettle \/ LoginCatch
  \/ ReqWaitCall \/ ReqWaitDone \/ ParShot
  \/ ToggleRead \/ ToggleClick
  \/ ContentTry \/ ContentFinish \/ LoadedTry \/ SettingsTry
  \/ FeaturesTry \/ FeaturesAttempt
  \/ ScnReadConfig \/ ScnLiterals \/ ScnVerify \/ ScnCall \/ ScnClick \/ ScnNav \/ ScnConstruct
  \/ ScnShot
  \/ Render \/ ClosePage

Spec == Init /\ [][Next]_vars
(* ======================= properties ======================= *)
AllEqNonZero(s) == Len(s) > 0 /\ s[1] > 0 /\ \A i \in 1..Len(s) : s[i] = s[1]

(* number of equal elements at the end of a non-empty sequence *)
RECURSIVE TrailingRun(_)
TrailingRun(s) ==
  IF Len(s) <= 1 THEN Len(s)
  ELSE IF s[Len(s)] = s[Len(s) - 1] THEN 1 + TrailingRun(SubSeq(s, 1, Len(s) - 1))
  ELSE 1

InPortalWait == op = "wait" /\ cls = "PortalPage"

InDashWait == op = "wait" /\ cls = "DashboardPage"

(* C1 as stated: the portal loop is in the stable state after poll k exactly *)
(* when polls k-2, k-1 and k returned the same non-zero card count.         *)
C1_Original ==
  (InPortalWait /\ pc = "p_loop")
    => ((stableCount >= PortalStableThreshold)
          <=> (attempt >= 3 /\ AllEqNonZero(LastN(hist, 3))))

(* C1 amended: the portal loop reaches the stable state (stability counter 3) *)
(* exactly when the last FOUR polls returned the same non-zero card count,   *)
(* i.e. after three consecutive equal comparisons; it leaves the loop as     *)
(* stable only then, and otherwise only after 10 polls; a poll whose count   *)
(* differs from the previous one leaves the counter at 0.                    *)
C1_StableAfterFourEqualPolls ==
  InPortalWait =>
    /\ (stableCount = PortalStableThreshold) <=> (Len(hist) = 4 /\ AllEqNonZero(hist))
    /\ stableCount <= PortalStableThreshold
    /\ (outcome = "stable") => (stableCount = PortalStableThreshold)
    /\ (outcome = "exhausted") =>
          (attempt = PortalMaxAttempts /\ stableCount < PortalStableThreshold)
    /\ (Len(hist) >= 2 /\ hist[Len(hist)] # hist[Len(hist) - 1]) => (stableCount = 0)

C1_Witness ==
  InPortalWait /\ pc = "done" /\ outcome = "stable" /\ attempt = 6 /\ pageOpen

(* C2 as stated: the dashboard counter is incremented only when the previous *)
(* count is greater than 0, so the count is never declared stable at 0.      *)
C2_Original ==
  InDashWait =>
    /\ (stableCount > 0) => (previousCardCount > 0)
    /\ (outcome = "stable") => (currentCardCount > 0)

(* C2 amended: the dashboard counter is incremented exactly when the count   *)
(* equals the previous count, 0 included (previousCardCount starts at 0),    *)
(* and is otherwise reset to 0 with the new count recorded as previous: the  *)
(* counter is the length of the run of equal counts compared so far minus 1, *)
(* and the loop declares the count stabilised when it reaches 2, also at 0.  *)
C2_CounterIsRunOfEqualCounts ==
  InDashWait =>
    /\ stableCount = TrailingRun(hist) - 1
    /\ previousCardCount = hist[Len(hist)]
    /\ (outcome = "stable") <=> (stableCount >= DashStableThreshold)

C2_Witness ==
  InDashWait /\ pc = "done" /\ outcome = "stable" /\ currentCardCount = 0 /\ attempt = 1

(* C3: once the elapsed time since the call exceeds the timeout argument, *)
(* neither polling loop begins a further poll (its wait and its query).   *)
C3_NoPollAfterTimeout == (op = "wait") => ~polledLate

(* C4 as stated: the waiters return true when stable was reached and false *)
(* when the budget ran out or a selector wait failed.                      *)
C4_Original ==
  (op = "wait" /\ pc = "done") =>
    (retval \in {JsTrue, JsFalse} /\ (retval = JsTrue <=> outcome = "stable"))

(* C4 amended: both waiters return no value (undefined) and never throw, on *)
(* every path: stable, attempts exhausted, timed out, or host failure; the  *)
(* caller cannot tell these apart from the returned value.                  *)
C4_WaitersReturnUndefined ==
  (op = "wait" /\ pc = "done") =>
    (retval = Undefined /\ ~threw /\ outcome \in {"stable", "exhausted", "timedout", "error"})

C4_Witness ==
  op = "wait" /\ pc = "done" /\ outcome = "exhausted" /\ retval = Undefined
(* C5: BasePage.waitForLoadState returns true exactly when the host's signal *)
(* for the state fired within the timeout (the awaited host call resolved),  *)
(* false otherwise, and never throws, whatever the host does.                *)
C5_LoadStateTrueIffSignal ==
  (op = "load" /\ pc = "done") =>
    /\ ~threw
    /\ retval \in {JsTrue, JsFalse}
    /\ (retval = JsTrue) <=> (hostOutcome = "resolved")
    /\ (retval = JsTrue) => (signalAt >= 0 /\ signalAt <= timeout /\ now - startTime = signalAt)
    /\ (pageOpen /\ signalAt >= 0 /\ signalAt < timeout) => (retval = JsTrue)
    /\ (signalAt < 0 \/ signalAt > timeout) => (retval = JsFalse)

C5_Witness ==
  op = "load" /\ pc = "done" /\ hostOutcome = "closed" /\ retval = JsFalse /\ signalAt = 0
(* ----- findCard: what the claims mean by a match, stated without the code's helpers ----- *)
SameLetter(x, y) == x = y \/ {x, y} = {"a", "A"} \/ {x, y} = {"b", "B"}

ContainsCI(hay, needle) ==
  \E k \in 0..(Len(hay) - Len(needle)) :
    \A j \in 1..Len(needle) : SameLetter(hay[k + j], needle[j])

TitleContains(c) == c.hasTitle /\ ContainsCI(c.title, cardName)

ContentContains(c) == ContainsCI(c.title \o c.body, cardName)

Idx == 1..Len(docAtCall)

MinOf(S) == CHOOSE i \in S : \A j \in S : i <= j

TitleHits == {i \in Idx : TitleContains(docAtCall[i])}

ContentHits == {i \in Idx : ContentContains(docAtCall[i])}

VisibleOnes == {i \in Idx : docAtCall[i].vis = "visible"}

FindReturned == op = "find" /\ calls >= 1

FindAtRest == FindReturned /\ pc \in {"f_idle", "done"}

LastRes == res[Len(res)]

(* C6 as stated: findCard returns null whenever no card has a title or content *)
(* containing cardName.                                                        *)
C6_Original ==
  FindReturned =>
    (~threw /\ ((TitleHits = {} /\ ContentHits = {}) => LastRes.kind = "null"))

(* C6 amended: findCard never throws, and returns null whenever no card has a *)
(* title or content containing cardName and, on the dashboard, no element of  *)
(* the page outside the cards has text matching cardName; the strategies are  *)
(* tried in the order title, card content, (dashboard) page-wide text.        *)
C6_NullWhenNothingMatches ==
  FindReturned =>
    /\ ~threw
    /\ (TitleHits = {} /\ ContentHits = {}
          /\ (cls = "DashboardPage" => ~ContainsCI(otherText, cardName)))
         => LastRes.kind = "null"
    /\ (LastRes.kind = "card" /\ TitleHits # {}) => LastRes.idx \in TitleHits
    /\ (LastRes.kind = "card") => LastRes.idx \in ContentHits
    /\ (LastRes.kind = "text") =>
         (cls = "DashboardPage" /\ TitleHits = {} /\ ContentHits = {}
            /\ ContainsCI(otherText, cardName))

C6_Witness ==
  /\ FindReturned /\ pageOpen /\ cls = "DashboardPage"
  /\ Len(docAtCall) = MaxDocCards /\ TitleHits = {} /\ ContentHits = {}
  /\ otherText = <<"b">>
  /\ LastRes.kind = "null" /\ ~LastRes.err

(* C7 as stated: with at least one visible matching card, findCard returns the *)
(* first visible match of the first strategy that has a visible match (looked  *)
(* at where no host call fails: the page is open and every card can be         *)
(* scrolled to).                                                               *)
C7_Original ==
  (FindReturned /\ pageOpen /\ (\A i \in Idx : docAtCall[i].vis # "nobox")
     /\ (TitleHits \cup ContentHits) \cap VisibleOnes # {}) =>
    /\ LastRes.kind = "card"
    /\ LastRes.idx = IF TitleHits \cap VisibleOnes # {}
                       THEN MinOf(TitleHits \cap VisibleOnes)
                       ELSE MinOf(ContentHits \cap VisibleOnes)

(* C7 amended: a card returned by findCard is the first matching card in      *)
(* document order of the winning strategy (title if any title matches, else   *)
(* content), whether it is visible or not: visibility is never checked, and   *)
(* unless the host fails (page closed, or the first match has no layout box   *)
(* to scroll to) that first match is what findCard returns.                   *)
C7_FirstMatchAnyVisibility ==
  FindReturned =>
    LET first == IF TitleHits # {} THEN MinOf(TitleHits)
                 ELSE IF ContentHits # {} THEN MinOf(ContentHits) ELSE 0
    IN  /\ (LastRes.kind = "card") => (LastRes.idx = first)
        /\ (pageOpen /\ first # 0 /\ docAtCall[first].vis # "nobox")
             => (LastRes.kind = "card" /\ LastRes.idx = first)

C7_Witness ==
  /\ FindReturned /\ LastRes.kind = "card"
  /\ docAtCall[LastRes.idx].vis = "covered"
  /\ \E j \in TitleHits \cap VisibleOnes : j > LastRes.idx

C10_NavReturnsLastOrCurrent ==
  (op = "nav" /\ pc = "done") =>
    /\ ~threw
    /\ navRet.kind = "page"
    /\ navRet.id =
         IF ctxValid /\ Len(pagesSnap) > 1 /\ hostOutcome = "resolved"
           THEN pagesSnap[Len(pagesSnap)]
           ELSE thisPage

C10_Witness ==
  /\ op = "nav" /\ pc = "done" /\ ctxValid
  /\ Len(pagesSnap) > 1 /\ hostOutcome = "timeout"
  /\ navRet.id = thisPage /\ thisPage # pagesSnap[Len(pagesSnap)]
(* C11: waitForNavigationAfterButtonClick adopts a tab if and only if the    *)
(* click opened it: it returns the tab the click opened (also one that       *)
(* appears shortly after the call began), and the current tab when the click *)
(* opened none, whatever older tabs the context holds.  Looked at where no   *)
(* host call fails: the context is valid, this.page is open and the awaited  *)
(* load state is reached.                                                    *)
C11_AdoptsIffClickOpened ==
  (op = "nav" /\ pc = "done" /\ ctxValid /\ hostOutcome = "resolved"
     /\ \E i \in 1..Len(pages) : pages[i] = thisPage) =>
    (navRet.id = IF clickTab # 0 THEN clickTab ELSE thisPage)
(* ----- scenarios ----- *)
RequiredAbsent == \E k \in ConfigKeys : Falsy(env[k])

(* C12: every page-object call of a scenario acts on the active tab, i.e. the *)
(* fixture page until a navigation wait has returned, and from then on the    *)
(* tab that the last waitForNavigationAfterButtonClick returned.              *)
C12_CallsActOnActiveTab ==
  (op = "scn") => \A i \in 1..Len(log) : log[i].tab = log[i].active

(* C13: a scenario started with url, Username or Password absent raises an   *)
(* error before any automation call is issued, and never works with a value  *)
(* substituted for the missing one.                                          *)
C13_FailFastOnMissingConfig ==
  (op = "scn" /\ RequiredAbsent) =>
    /\ log = <<>>
    /\ (pc = "done") => threw
    /\ \A k \in ConfigKeys : Falsy(env[k]) => cfg[k] # DefaultValue[k]
(* ----- the click methods ----- *)
ClickDone == op = "click" /\ pc = "done"

(* C14 as stated: a transport failure (page closed) met by a click method is *)
(* propagated to the caller; false is returned only for expected failures.   *)
C14_Original ==
  ClickDone =>
    /\ (hostOutcome = "closed") => threw
    /\ (retval = JsFalse) => (hostOutcome # "closed")

(* C14 amended: clickCard, clickCardButton and clickCardIcon never throw and  *)
(* always return true or false: a transport failure (page closed) met after  *)
(* the card was found is caught and answered with false, exactly as a card,  *)
(* button or icon that was not found, and then no click has been made.       *)
C14_ClickMethodsNeverThrow ==
  ClickDone =>
    /\ ~threw
    /\ retval \in {JsTrue, JsFalse}
    /\ (hostOutcome = "closed") =>
         (retval = JsFalse /\ found.kind # "null" /\ clicked = <<>> /\ ~pageOpen)
    /\ (found.kind = "null") => (retval = JsFalse /\ clicked = <<>>)

C14_Witness ==
  /\ ClickDone /\ method = "clickCardButton" /\ hostOutcome = "closed"
  /\ target.kind = "button" /\ retval = JsFalse /\ ~threw

(* the buttons of the page, stated without the code's helpers *)
ButtonHere(c, j) == ContainsCI(btns[c][j], buttonText)

NoButtonFound ==
  IF buttonText = <<>>
    THEN found.kind = "card" => Len(btns[found.idx]) = 0
    ELSE /\ \A c \in 1..Len(btns) : \A j \in 1..Len(btns[c]) : ~ButtonHere(c, j)
         /\ ~ContainsCI(outsideBtn, buttonText)

PortalButtonDone == ClickDone /\ cls = "PortalPage" /\ method = "clickCardButton"

(* C17: PortalPage.clickCardButton returns true if and only if it made exactly *)
(* one click (on a button or on the card); it returns false without a click   *)
(* when the card is not found, or when no button matches and                  *)
(* clickCardIfNoButton is false; with the card found, clickCardIfNoButton     *)
(* true and no failing host call it returns true.                             *)
C17_TrueIffOneClick ==
  PortalButtonDone =>
    /\ (retval = JsTrue) <=> (Len(clicked) = 1)
    /\ (retval = JsFalse) <=> (Len(clicked) = 0)
    /\ (found.kind = "null") => (retval = JsFalse)
    /\ (NoButtonFound /\ ~clickIfNone) => (retval = JsFalse)
    /\ (found.kind # "null" /\ clickIfNone /\ pageOpen) => (retval = JsTrue)
    /\ (retval = JsTrue /\ NoButtonFound) => (clicked[1].kind = "card" /\ clickIfNone)

C17_Witness ==
  /\ PortalButtonDone /\ pageOpen /\ found.kind = "card"
  /\ NoButtonFound /\ clickIfNone /\ buttonText # <<>>
  /\ retval = JsTrue /\ clicked = <<[kind |-> "card", card |-> found.idx, btn |-> 0]>>

ButtonDone == ClickDone /\ method = "clickCardButton"

IsPrefix(a, b) == Len(a) <= Len(b) /\ a = SubSeq(b, 1, Len(a))

Pos(a, x) == IF \E i \in 1..Len(a) : a[i] = x THEN CHOOSE i \in 1..Len(a) : a[i] = x ELSE 0

LoginPageFlow == op = "login" /\ cls = "LoginPage"

(* C15: LoginPage.loginAndWaitForNavigation issues its host calls strictly in   *)
(* the order goto, wait for the username input, the password input and the     *)
(* submit button, fill username, fill password, click submit, wait for         *)
(* domcontentloaded with a budget of 10000 ms; a call is issued only when the  *)
(* previous one has settled, and the submit click only after both fills.       *)
C15_LoginStepsInOrder ==
  LoginPageFlow =>
    /\ IsPrefix(issued, <<"goto", "sel-user", "sel-pass", "sel-submit", "fill-user",
                          "fill-pass", "click-submit", "loadstate", "wait", "shot-after">>)
    /\ IF inflight = "none" THEN completed = issued
       ELSE issued = Append(completed, inflight)
    /\ (Pos(issued, "click-submit") # 0) =>
         /\ Pos(completed, "fill-user") # 0 /\ Pos(completed, "fill-pass") # 0
         /\ Pos(completed, "fill-pass") < Pos(issued, "click-submit")
    /\ (Pos(issued, "loadstate") # 0) => (timeout = 10000)
    /\ (failedAt # "none") => (Last(issued) = failedAt)

C15_Witness ==
  /\ LoginPageFlow /\ pc = "done" /\ ~threw /\ pageOpen
  /\ Len(issued) = 10 /\ completed = issued /\ timeout = 10000

(* C16: loginAndWaitForNavigation re-throws every error raised while it navigates, *)
(* waits for the login form, fills the credentials or clicks submit, and only     *)
(* after it has attempted its diagnostic screenshot; a timeout of the post-login  *)
(* wait for domcontentloaded is no error: the operation then returns normally.    *)
C16_LoginRethrowsAfterScreenshot ==
  (op = "login" /\ pc = "done") =>
    /\ threw <=> (failedAt # "none")
    /\ threw =>
         /\ failedAt \in {"goto", "sel-user", "sel-pass", "sel-submit", "fill-user",
                          "fill-pass", "click-submit"}
         /\ shotTried # <<>>
         /\ Last(shotTried) =
              IF cls = "LoginPage" THEN <<"login-error.png">> ELSE <<"login-process-error.png">>
         /\ Pos(issued, "loadstate") = 0
    /\ (~threw) =>
         /\ Pos(completed, "click-submit") # 0 /\ Pos(completed, "loadstate") # 0
         /\ completed = issued

C16_Witness ==
  /\ op = "login" /\ pc = "done" /\ pageOpen /\ ~threw
  /\ now >= LoginLoadTimeout /\ cls = "LoginPage"
(* C18: RequirementsPage.waitOnRequirementsPage(seconds) suspends the flow for *)
(* seconds x 1000 ms, for every non-negative seconds (the page staying open).  *)
C18_WaitsSecondsTimes1000 ==
  (op = "rwait" /\ pc = "done" /\ pageOpen) => (now - startTime = seconds * 1000)

(* C19: two scenarios run in parallel share no mutable resource: no file is *)
(* written by both of them.                                                 *)
C19_NoFileWrittenByBoth ==
  (op = "par") =>
    \A e \in written : \A f \in written : (e.path = f.path) => (e.worker = f.worker)

(* the steps of the two waiters themselves, without the host's rendering and closing *)
WaiterStep ==
  \/ PortalSelMain \/ PortalSelContainer \/ PortalSelCards
  \/ PortalWait \/ PortalPoll \/ PortalExit \/ PortalCatch
  \/ DashLoadDom \/ DashLoadIdle \/ DashSelContent \/ DashSelContainer \/ DashSelCards
  \/ DashFirstQuery \/ DashIterate \/ DashWait \/ DashPoll \/ DashSettle \/ DashImages
  \/ DashFinish

(* C28: the card-count polling loops always terminate: whatever the card counts *)
(* do, waitForPortalPageLoad makes at most 10 polls and                         *)
(* waitForDashboardPageLoad at most 5 loop iterations, a waiter that has not    *)
(* returned always has a next step of its own to take, and neither ever throws. *)
C28_PollingLoopsTerminate ==
  (op = "wait") =>
    /\ InPortalWait => attempt <= PortalMaxAttempts
    /\ InDashWait => attempt <= DashMaxAttempts
    /\ ~threw
    /\ (pc # "done") => ENABLED WaiterStep
    /\ (pc = "done") => (retval = Undefined)

C28_Witness ==
  /\ op = "wait" /\ pc = "done" /\ pageOpen /\ outcome = "exhausted"
  /\ attempt = (IF cls = "PortalPage" THEN PortalMaxAttempts ELSE DashMaxAttempts)
  /\ stableCount = 0

(* C30: toggleRememberMe(check) clicks the remember-me checkbox only when its *)
(* state differs from check: a call that completes without a host error has   *)
(* clicked exactly when the state differed and leaves the checkbox equal to   *)
(* check, an immediately repeated call with the same argument clicks nothing, *)
(* and a host error is swallowed: the method never throws.                    *)
C30_ToggleClicksOnlyOnDifference ==
  (op = "toggle") =>
    /\ ~threw
    /\ clicks <= 1
    /\ (pc \in {"t_eval", "done"} /\ trail # <<>> /\ ~Last(trail).error) =>
         ((dom.box = "checked") <=> rememberMe)
    /\ (pc = "t_click") => ((dom.box = "checked") # rememberMe)
    /\ (Len(trail) = 2 /\ ~trail[1].error) => ~trail[2].clicked
    /\ \A i \in 1..Len(trail) : trail[i].clicked => ~trail[i].error

C30_Witness ==
  /\ op = "toggle" /\ pc = "done" /\ pageOpen /\ rememberMe
  /\ trail = <<ToggleCall(TRUE, FALSE), ToggleCall(FALSE, FALSE)>>
  /\ dom.box = "checked" /\ clicks = 1

(* C29: waitForPortalFeaturesContent always returns normally, and whenever its *)
(* first strategy (the wait for the main-content selector) fails, its second   *)
(* strategy reports success, even when the network-idle wait timed out or the  *)
(* page is closed, so that strategy 3 (visible text) and strategy 4 (fixed     *)
(* wait) are never executed.                                                   *)
C29_ContentWaitStopsAtStrategyTwo ==
  (op = "content") =>
    /\ ~threw
    /\ Len(trail) <= 2
    /\ trail = SubSeq(ContentStrategies, 1, Len(trail))
    /\ (pc \in {"c_final", "done"}) =>
         /\ trail # <<>>
         /\ (Len(trail) = 1) <=> (dom.main = "found" /\ hostOutcome = "found")
    /\ (pc = "done") => (retval = Undefined)

C29_Witness ==
  /\ op = "content" /\ pc = "done" /\ pageOpen
  /\ trail = <<"main-content", "network-idle">>
  /\ hostOutcome = "timeout" /\ dom.text

(* C22: isDashboardLoaded returns true only when the current page is the loaded *)
(* dashboard; on any page that is not the dashboard (the login page still      *)
(* displayed after a failed login) it returns false, and it never throws.      *)
C22_TrueOnlyOnDashboard ==
  (op = "loaded" /\ pc = "done") =>
    /\ ~threw
    /\ (retval = JsTrue) => (dom.kind = "dashboard")
    /\ (dom.kind # "dashboard") => (retval = JsFalse)

(* C27: in clickSettingsIcon the strategies are tried one at a time in their listed *)
(* order, none more than once per call, none after one has reported success, and    *)
(* false is returned only after every strategy has been attempted.                  *)
C27_FalseOnlyAfterEveryStrategy ==
  (op = "settings") =>
    /\ IsPrefix(trail, SettingsStrategies)
    /\ clicks <= 1
    /\ (clicks = 1) => (pc = "done" /\ retval = JsTrue)
    /\ (pc = "done" /\ retval = JsFalse) => (trail = SettingsStrategies)

(* ----- clickPortalFeatures ----- *)
IdentifiesPortalFeatures(text) == Includes(text, <<"feature">>)

FeaturesDone == op = "features" /\ pc = "done"

(* the methods of the chain made so far, in order *)
Attempts == SelectSeq(trail, LAMBDA x : x \in {ChainAttempts[i] : i \in 1..Len(ChainAttempts)})

(* C21: clickPortalFeatures returns true only if the element it clicked is one whose *)
(* text or href identifies Portal Features; when the page contains no such element   *)
(* it clicks nothing and returns false.                                              *)
C21_TrueOnlyForPortalFeatures ==
  FeaturesDone =>
    /\ (retval = JsTrue) =>
         (Len(clicked) = 1 /\ IdentifiesPortalFeatures(clicked[1].text))
    /\ (~IdentifiesPortalFeatures(dom.el.text)) => (clicks = 0 /\ retval = JsFalse)

(* C23: the click chain applied to a resolved menu item makes at most three attempts, *)
(* each at most once, in the order native click with actionability checks, forced     *)
(* click, synthetic click event; a later attempt is made only after the earlier one   *)
(* failed.                                                                            *)
C23_ChainNativeForcedSynthetic ==
  (op = "features") =>
    /\ Len(Attempts) <= 3
    /\ \A i \in 1..Len(Attempts) :
         /\ ChainAct(i) = <<"native", "forced", "event">>[i]
         /\ \A j \in 1..Len(Attempts) : (Attempts[i] = Attempts[j]) => (i = j)
    /\ (clicks = 1) => (pc = "done")

ChainDone == FeaturesDone /\ Attempts # <<>>

(* C24 as stated: a click on an element without a native click activation falls *)
(* through to the synthetic-event attempt, and the result returned identifies   *)
(* which of the attempts succeeded.                                             *)
C24_Original ==
  (ChainDone /\ dom.el.tag = "svg" /\ clicks = 1) =>
    /\ clicked[1].via = "event"
    /\ retval = ChainAttempts[Len(Attempts)]

(* C24: the chain returns the plain boolean true whichever method worked and false  *)
(* only when all three rejected, as clickCard and its siblings return plain         *)
(* booleans; an element without a click function is clicked by the forced mouse     *)
(* click when that resolves, and receives the synthetic event, from the second      *)
(* method, only when the forced click rejected.                                     *)
C24_ChainReturnsPlainTrue ==
  /\ ChainDone =>
       /\ retval \in {JsTrue, JsFalse}
       /\ (retval = JsTrue) <=> (clicks = 1)
       /\ (retval = JsFalse) => (Len(Attempts) = Len(ChainAttempts))
       /\ (clicks = 1) =>
            /\ clicked[1].via = ChainAct(Len(Attempts))
            /\ (dom.el.tag = "svg") =>
                 ((clicked[1].via = "event") <=> (Len(Attempts) >= 2))
  /\ (op = "click" /\ pc = "done") => (retval \in {JsTrue, JsFalse})

C24_Witness ==
  /\ ChainDone /\ pageOpen /\ dom.el.tag = "svg"
  /\ Attempts = <<"forced-click", "in-page-click">>
  /\ clicks = 1 /\ clicked[1].via = "event" /\ retval = JsTrue

(* ----- element handles and clicks ----- *)
(* the host calls that go through an element handle *)
HandleCalls ==
  {"handle.isVisible", "handle.scrollIntoViewIfNeeded", "handle.query",
   "handle.click:ok", "handle.click:rejected", "handle.evaluate:clicked",
   "page.evaluate(handle)", "page.evaluate(handle):clicked", "page.evaluate(handle):rejected"}

(* the calls through a handle by which a click on its element succeeded *)
HandleClicks == {"handle.click:ok", "handle.evaluate:clicked", "page.evaluate(handle):clicked"}

ClickingOp == op \in {"click", "settings", "features"}

(* C26: no element handle resolved before a successful click is used after it: in *)
(* clickCard, clickCardButton, clickCardIcon, clickSettingsIcon and               *)
(* clickPortalFeatures, once a click on an element has succeeded the operation    *)
(* performs no further query or action through any handle obtained before it.    *)
C26_NoHandleUseAfterClick ==
  ClickingOp =>
    \A i \in 1..Len(issued) : \A j \in 1..Len(issued) :
      (i < j /\ issued[i] \in HandleClicks) => (issued[j] \notin HandleCalls)

C26_Witness ==
  /\ op = "settings" /\ pc = "done" /\ retval = JsTrue
  /\ \E i \in 1..Len(issued) : i < Len(issued) /\ issued[i] \in HandleClicks

(* ----- screenshots ----- *)
(* C25: a failing screenshot never changes a functional outcome: for every page- *)
(* object operation and every test scenario the value returned / the pass-fail   *)
(* result is the same whether every screenshot call succeeds or some call fails: *)
(* no operation throws because of a screenshot and no test ends as failed at a   *)
(* screenshot statement.                                                         *)
C25_ScreenshotNeverChangesOutcome ==
  (op = "scn" /\ pc = "done" /\ threw) => (CurStmt.kind # "shot")
====
